---- MODULE Spec2Model ----
(***************************************************************************)
(* Model of the data-transformation core of the ultrasonic-testing report  *)
(* filler (src/探伤excel填表.py): DaySegmenter                              *)
(* (parse_day_ranges_from_source), ProbeSelector                           *)
(* (choose_probes_for_segments), BasisCodeDispatcher                       *)
(* (write_detection_basis), DateLexicon (parse_cn_date,                    *)
(* parse_cn_date_range, format_cn_date), FieldExtractor                    *)
(* (extract_data_from_word) and the orchestrator (main, fill_sheet_basic). *)
(*                                                                         *)
(* Text is a sequence of one-character strings.  Characters outside ASCII  *)
(* are written by name:                                                    *)
(*   "Nian" = U+5E74 (year)                                                *)
(*   "Yue" = U+6708 (month)      "Ri" = U+65E5 (day)                       *)
(*   "FwDot" = U+FF0E            "CjkStop" = U+3002                        *)
(*   "EmDash" = U+2014           "FwDash" = U+FF0D                         *)
(*   "Dun" = U+3001              "FwComma" = U+FF0C   "FwSemi" = U+FF1B    *)
(*   "FwColon" = U+FF1A          "FwTilde" = U+FF5E   "NL" = U+000A        *)
(*   "uXXXX" = the character of code point U+XXXX                          *)
(* An empty spreadsheet cell (COM value None) is the value None; any other  *)
(* cell is the text str() gives for its value.  The data file exists and   *)
(* year_hint is a year, as main() guarantees before it calls either reader.*)
(***************************************************************************)
EXTENDS Integers, Sequences, FiniteSets, TLC

VARIABLES
    \* ---- DaySegmenter (parse_day_ranges_from_source) ----
    colF,        \* column F of the data sheet: row -> text or None
    yearHint,    \* year_hint argument
    segPc,       \* position inside parse_day_ranges_from_source
    markers,     \* local `markers`: sequence of <<row, month, day>>
    dayToRanges, \* local `day_to_ranges` (insertion-ordered dict)
    segResult,   \* [raised, out]: what the call returned / whether it raised
    \* ---- ProbeSelector (choose_probes_for_segments) ----
    sheetRows,   \* data sheet rows: row -> [b, c, d, e] cell values
    segments,    \* `segments` argument: None or a sequence of <<s, e>>
    prPc,        \* position inside choose_probes_for_segments
    visit,       \* rows still to be visited by the nested for loops
    picked,      \* local `picked`
    seen,        \* local `seen`
    iter,        \* locals of the latest row iteration: row, weld_type, thickness, bands
    prResult,    \* returned list (picked[:8])
    \* ---- BasisCodeDispatcher (write_detection_basis) ----
    sheet12,     \* row 12 of the basic sheet: slot address -> text
    lastBasis,   \* basis_str of the most recent call
    basisCalled, \* whether write_detection_basis has been called on the sheet
    clearedOld,  \* whether the latest call emptied a slot an earlier call had filled
    \* ---- write_detection_basis called with one token at a time ----
    normSheet,   \* row 12 after the latest one-token call
    normToken,   \* the token of the latest one-token call
    prevSheet,   \* row 12 after the call before it
    prevToken,   \* the token of the call before it
    \* ---- DateLexicon (format_cn_date, parse_cn_date, parse_cn_date_range) ----
    dtPc,        \* which of the three functions is called next
    dtDate,      \* the datetime given to format_cn_date, or NoDate
    dtText,      \* the text given to the two parsers
    dtParsed,    \* what parse_cn_date returned
    dtRange,     \* [raised, start, end]: what parse_cn_date_range returned
    \* ---- FieldExtractor (extract_data_from_word) ----
    docRows,     \* the rows of doc.tables in document order, each a sequence of cell texts
    docParas,    \* the texts of doc.paragraphs
    exPc,        \* position inside extract_data_from_word
    exRow,       \* index of the row the table loop reads next
    exTableTexts, \* local `table_texts`
    exResult,    \* local `result` (the dict returned)
    \* ---- main ----
    nowYear,     \* datetime.now().year
    mainPc,      \* position inside main
    dataFromWord, \* local `data_from_word`
    baseYear,    \* local `base_year`
    dayGroups,   \* local `day_groups`
    dayIdx,      \* loop variable `idx` of the multi-day loop
    answers,     \* what the operator typed at the next-day prompts, in order
    filled       \* the workbooks filled so far, in order

segVars   == <<colF, yearHint, segPc, markers, dayToRanges, segResult>>
probeVars == <<sheetRows, segments, prPc, visit, picked, seen, iter, prResult>>
basisVars == <<sheet12, lastBasis, basisCalled, clearedOld>>
spellVars == <<normSheet, normToken, prevSheet, prevToken>>
dateVars  == <<dtPc, dtDate, dtText, dtParsed, dtRange>>
extractVars == <<docRows, docParas, exPc, exRow, exTableTexts, exResult>>
mainVars  == <<nowYear, mainPc, dataFromWord, baseYear, dayGroups, dayIdx, answers, filled>>
laterVars == <<spellVars, dateVars, extractVars, mainVars>>
vars      == <<segVars, probeVars, basisVars, laterVars>>

\* an empty cell; texts are tuples of characters, so None is a tuple as well
None == <<"None">>

\* re.search / re.match finding nothing
NoMatch == <<>>

(***************************************************************************)
(* Bounds of the model                                                     *)
(***************************************************************************)
\* Data rows of the marker column are rows 2 .. MaxSegRows + 1.
MaxSegRows == 4
\* Data rows of the probe sheet are rows 2 .. MaxProbeRows + 1.
MaxProbeRows == 3
\* A basis_str is made of at most MaxPieces pieces (token + separator).
MaxPieces == 3
\* The tables of a document hold at most MaxDocRows rows.
MaxDocRows == 2

\* data rows of the data file in a run of main
MaxMainRows == 2

SetMax(S) == CHOOSE x \in S : \A y \in S : y <= x

Range(f) == {f[i] : i \in DOMAIN f}

(***************************************************************************)
(* Text helpers (Python str / re semantics on character sequences)         *)
(***************************************************************************)
Digits == {"0", "1", "2", "3", "4", "5", "6", "7", "8", "9"}

\* \d of the re module, for ASCII digits
IsDigit(c) == c \in Digits

\* int() of one decimal digit
DigitVal(c) ==
    CASE c = "0" -> 0 [] c = "1" -> 1 [] c = "2" -> 2 [] c = "3" -> 3 [] c = "4" -> 4
      [] c = "5" -> 5 [] c = "6" -> 6 [] c = "7" -> 7 [] c = "8" -> 8 [] c = "9" -> 9

\* \s of the re module, for the whitespace characters the model uses
IsSpace(c) == c \in {" ", "\t", "NL"}

RECURSIVE LStrip(_)
LStrip(s) == IF s # <<>> /\ IsSpace(Head(s)) THEN LStrip(Tail(s)) ELSE s

RECURSIVE RStrip(_)
RStrip(s) ==
    IF s # <<>> /\ IsSpace(s[Len(s)]) THEN RStrip(SubSeq(s, 1, Len(s) - 1)) ELSE s

\* str.strip()
Strip(s) == RStrip(LStrip(s))

\* str.replace(old, new) for a single character `old` and a text `new`
RECURSIVE ReplaceChar(_, _, _)
ReplaceChar(s, old, new) ==
    IF s = <<>> THEN <<>>
    ELSE (IF Head(s) = old THEN new ELSE <<Head(s)>>) \o ReplaceChar(Tail(s), old, new)

\* int() of a run of decimal digits
RECURSIVE IntOf(_)
IntOf(ds) ==
    IF ds = <<>> THEN 0 ELSE IntOf(SubSeq(ds, 1, Len(ds) - 1)) * 10 + DigitVal(ds[Len(ds)])

\* first index >= i of s that is not whitespace (Len(s) + 1 if none): \s*
RECURSIVE SkipSpace(_, _)
SkipSpace(s, i) == IF i <= Len(s) /\ IsSpace(s[i]) THEN SkipSpace(s, i + 1) ELSE i

\* number of digits a greedy \d{1,2} takes at index i (0: no digit there)
Digits12(s, i) ==
    IF i > Len(s) \/ ~IsDigit(s[i]) THEN 0
    ELSE IF i + 1 <= Len(s) /\ IsDigit(s[i + 1]) THEN 2 ELSE 1

\* first index >= i of s that is not a digit (Len(s) + 1 if none): \d*
RECURSIVE SkipDigits(_, _)
SkipDigits(s, i) == IF i <= Len(s) /\ IsDigit(s[i]) THEN SkipDigits(s, i + 1) ELSE i

(***************************************************************************)
(* datetime(y, m, d): the constructor raises ValueError unless the three   *)
(* numbers name a day of the proleptic Gregorian calendar, year 1..9999.   *)
(***************************************************************************)
IsLeap(y) == (y % 4 = 0) /\ ((y % 100 # 0) \/ (y % 400 = 0))

DaysInMonth(y, m) ==
    IF m = 2 THEN (IF IsLeap(y) THEN 29 ELSE 28)
    ELSE IF m \in {4, 6, 9, 11} THEN 30 ELSE 31

IsValidDate(y, m, d) ==
    /\ y >= 1 /\ y <= 9999
    /\ m >= 1 /\ m <= 12
    /\ d >= 1 /\ d <= DaysInMonth(y, m)

\* ordering of datetime values <<y, m, d>>
DateLess(a, b) ==
    \/ a[1] < b[1]
    \/ a[1] = b[1] /\ a[2] < b[2]
    \/ a[1] = b[1] /\ a[2] = b[2] /\ a[3] < b[3]

(***************************************************************************)
(* DaySegmenter: parse_day_ranges_from_source                              *)
(***************************************************************************)
\* pattern = (\d{1,2})\s*[./Yue]\s*(\d{1,2}) tried at index i of txt:
\* <<month, day>> on a match, NoMatch otherwise.  Both digit groups are greedy;
\* giving a digit back never helps, because the next pattern item is not a digit.
MarkerAt(txt, i) ==
    LET n1 == Digits12(txt, i)
        j  == SkipSpace(txt, i + n1)
        k  == SkipSpace(txt, j + 1)
        n2 == Digits12(txt, k)
    IN  IF n1 = 0 THEN NoMatch
        ELSE IF j > Len(txt) \/ txt[j] \notin {".", "/", "Yue"} THEN NoMatch
        ELSE IF n2 = 0 THEN NoMatch
        ELSE <<IntOf(SubSeq(txt, i, i + n1 - 1)), IntOf(SubSeq(txt, k, k + n2 - 1))>>

\* pattern.search(txt): the match at the leftmost index that has one
PatternSearch(txt) ==
    LET hits == {i \in 1..Len(txt) : MarkerAt(txt, i) # NoMatch}
    IN  IF hits = {} THEN NoMatch
        ELSE MarkerAt(txt, CHOOSE i \in hits : \A h \in hits : i <= h)

\* txt = str(val).strip().replace(FwDot, ".").replace(CjkStop, ".")
MarkerText(val) ==
    ReplaceChar(ReplaceChar(Strip(val), "FwDot", <<".">>), "CjkStop", <<".">>)

\* the marker of one cell of column F: <<month, day>> or NoMatch
CellMarker(val) == IF val = None THEN NoMatch ELSE PatternSearch(MarkerText(val))

\* sheet.Cells(sheet.Rows.Count, 6).End(xlUp).Row: the last populated row of the
\* column, row 1 when no data row is populated
LastRowOf(col) ==
    LET used == {r \in DOMAIN col : col[r] # None}
    IN  IF used = {} THEN 1 ELSE CHOOSE r \in used : \A u \in used : u <= r

\* the loop building `markers`: rows r .. last_row, in row order
RECURSIVE ScanMarkers(_, _, _)
ScanMarkers(col, r, last_row) ==
    IF r > last_row THEN <<>>
    ELSE LET m == CellMarker(col[r])
         IN  (IF m = NoMatch THEN <<>> ELSE << <<r, m[1], m[2]>> >>)
             \o ScanMarkers(col, r + 1, last_row)

\* RangeFor starting at the previous marker's own row
RangeForFromPrev(prev_row, row) == <<prev_row, row>>

\* the row range attributed to a marker at `row` when the previous marker
\* was at prev_row
RangeFor(prev_row, row) == <<prev_row + 1, row>>

\* the loop building `ranges_per_day`, carrying prev_row
RECURSIVE RangesPerDay(_, _)
RangesPerDay(ms, prev_row) ==
    IF ms = <<>> THEN <<>>
    ELSE LET mk == Head(ms)
         IN  << [key |-> <<mk[2], mk[3]>>, range |-> RangeFor(prev_row, mk[1])] >>
             \o RangesPerDay(Tail(ms), mk[1])

\* SetDefaultAppend as day_to_ranges[key] = [range]: a later range of a day
\* replaces the earlier ones
SetDefaultOverwrite(d2r, key, range) ==
    IF \E i \in 1..Len(d2r) : d2r[i].key = key
    THEN [i \in 1..Len(d2r) |->
            IF d2r[i].key = key
            THEN [d2r[i] EXCEPT !.ranges = <<range>>]
            ELSE d2r[i]]
    ELSE Append(d2r, [key |-> key, ranges |-> <<range>>])

\* day_to_ranges.setdefault(key, []).append(range) on an insertion-ordered dict
SetDefaultAppend(d2r, key, range) ==
    IF \E i \in 1..Len(d2r) : d2r[i].key = key
    THEN [i \in 1..Len(d2r) |->
            IF d2r[i].key = key
            THEN [d2r[i] EXCEPT !.ranges = Append(@, range)]
            ELSE d2r[i]]
    ELSE Append(d2r, [key |-> key, ranges |-> <<range>>])

\* the loop building `day_to_ranges`
RECURSIVE GroupByDay(_, _)
GroupByDay(rpd, d2r) ==
    IF rpd = <<>> THEN d2r
    ELSE GroupByDay(Tail(rpd), SetDefaultAppend(d2r, Head(rpd).key, Head(rpd).range))

\* EmitDay without the except clause: the ValueError leaves the function
EmitDayUncaught(res, year, key, ranges) ==
    IF res.raised THEN res
    ELSE IF IsValidDate(year, key[1], key[2])
    THEN [res EXCEPT !.out = Append(@, [dt |-> <<year, key[1], key[2]>>, ranges |-> ranges])]
    ELSE [res EXCEPT !.raised = TRUE]

\* one iteration of the loop building `out`: datetime() raising ValueError is
\* caught and the day skipped
EmitDay(res, year, key, ranges) ==
    IF res.raised THEN res
    ELSE IF IsValidDate(year, key[1], key[2])
    THEN [res EXCEPT !.out = Append(@, [dt |-> <<year, key[1], key[2]>>, ranges |-> ranges])]
    ELSE res

RECURSIVE BuildOut(_, _, _)
BuildOut(d2r, year, res) ==
    IF d2r = <<>> THEN res
    ELSE BuildOut(Tail(d2r), year, EmitDay(res, year, Head(d2r).key, Head(d2r).ranges))

\* InsertByDate without the sort: the days stay in the order of their first
\* marker
InsertByDateAtEnd(sorted, x) == Append(sorted, x)

\* out.sort(key=lambda x: x[0]): stable, ascending by date
RECURSIVE InsertByDate(_, _)
InsertByDate(sorted, x) ==
    IF sorted = <<>> THEN <<x>>
    ELSE IF DateLess(x.dt, Head(sorted).dt) THEN <<x>> \o sorted
    ELSE <<Head(sorted)>> \o InsertByDate(Tail(sorted), x)

RECURSIVE SortByDate(_, _)
SortByDate(out, acc) ==
    IF out = <<>> THEN acc ELSE SortByDate(Tail(out), InsertByDate(acc, Head(out)))

\* what column F may hold in the model
SegCells ==
    { None,
      <<"x">>,
      <<"3", ".", "3", "1">>,
      <<"4", "/", "4">>,
      <<" ", "4", "Yue", "4", "Ri">>,
      <<"2", "FwDot", "2", "9">>,
      <<"1", "3", ".", "1">>,
      <<"0", ".", "5">> }

SegRows == 2..(MaxSegRows + 1)

YearHints == {2024, 2025}

SegIdle ==
    /\ markers = <<>>
    /\ dayToRanges = <<>>
    /\ segResult = [raised |-> FALSE, out |-> <<>>]

SegInit ==
    /\ colF \in [SegRows -> SegCells]
    /\ yearHint \in YearHints
    /\ segPc = "start"
    /\ SegIdle

\* lines 779-797: find last_row, scan the marker column
SegScan ==
    /\ segPc = "start"
    /\ LET last_row == LastRowOf(colF)
           ms == ScanMarkers(colF, 2, last_row)
       IN  /\ markers' = (IF last_row < 2 THEN <<>> ELSE ms)
           /\ segPc' = (IF last_row < 2 \/ ms = <<>> THEN "done" ELSE "split")
    /\ UNCHANGED <<colF, yearHint, dayToRanges, segResult>>
    /\ UNCHANGED <<probeVars, basisVars, laterVars>>

\* lines 799-808: split into row ranges and group them by (month, day)
SegSplit ==
    /\ segPc = "split"
    /\ dayToRanges' = GroupByDay(RangesPerDay(markers, 1), <<>>)
    /\ segPc' = "emit"
    /\ UNCHANGED <<colF, yearHint, markers, segResult>>
    /\ UNCHANGED <<probeVars, basisVars, laterVars>>

\* lines 810-821: complete the year, drop invalid dates, sort, return
SegEmit ==
    /\ segPc = "emit"
    /\ LET res == BuildOut(dayToRanges, yearHint, [raised |-> FALSE, out |-> <<>>])
       IN  segResult' = (IF res.raised THEN [res EXCEPT !.out = <<>>]
                         ELSE [res EXCEPT !.out = SortByDate(res.out, <<>>)])
    /\ segPc' = "done"
    /\ UNCHANGED <<colF, yearHint, markers, dayToRanges>>
    /\ UNCHANGED <<probeVars, basisVars, laterVars>>

SegNext == SegScan \/ SegSplit \/ SegEmit

(***************************************************************************)
(* ProbeSelector: choose_probes_for_segments                               *)
(***************************************************************************)
\* str.upper() on the letters of the basic Latin alphabet
UpperOf ==
    [a |-> "A", b |-> "B", c |-> "C", d |-> "D", e |-> "E", f |-> "F", g |-> "G",
     h |-> "H", i |-> "I", j |-> "J", k |-> "K", l |-> "L", m |-> "M", n |-> "N",
     o |-> "O", p |-> "P", q |-> "Q", r |-> "R", s |-> "S", t |-> "T", u |-> "U",
     v |-> "V", w |-> "W", x |-> "X", y |-> "Y", z |-> "Z"]

UpperChar(c) == IF c \in DOMAIN UpperOf THEN UpperOf[c] ELSE c

Upper(s) == [i \in 1..Len(s) |-> UpperChar(s[i])]

\* `sub in s` for texts
Contains(s, sub) ==
    \E i \in 1..(Len(s) - Len(sub) + 1) : SubSeq(s, i, i + Len(sub) - 1) = sub

\* A float is <<negative, integer part, fraction digits>>: the decimal literal
\* the pattern -?\d+(?:\.\d+)? matched, which float() converts; NoFloat is None.
NoFloat == <<>>

FracZero(frac) == \A i \in 1..Len(frac) : frac[i] = "0"

IsZero(f) == f[2] = 0 /\ FracZero(f[3])

\* the match of (-?\d+(?:\.\d+)?) starting at index i of s, or NoFloat
FloatAt(s, i) ==
    LET neg == i <= Len(s) /\ s[i] = "-"
        d0  == IF neg THEN i + 1 ELSE i
        d1  == SkipDigits(s, d0)
        f1  == IF d1 + 1 <= Len(s) /\ s[d1] = "." /\ IsDigit(s[d1 + 1])
               THEN SkipDigits(s, d1 + 1) ELSE d1
    IN  IF d1 = d0 THEN NoFloat
        ELSE <<neg, IntOf(SubSeq(s, d0, d1 - 1)),
               IF f1 > d1 THEN SubSeq(s, d1 + 1, f1 - 1) ELSE <<>> >>

\* _to_float(x): None for an empty cell or a text without a number, else
\* the float of the leftmost match
ToFloat(x) ==
    IF x = None THEN NoFloat
    ELSE LET s == Strip(x)
             hits == {i \in 1..Len(s) : FloatAt(s, i) # NoFloat}
         IN  IF hits = {} THEN NoFloat
             ELSE FloatAt(s, CHOOSE i \in hits : \A h \in hits : i <= h)

\* comparison of a float with a non-negative integer n: -1, 0 or 1
Cmp(f, n) ==
    IF IsZero(f) THEN (IF n = 0 THEN 0 ELSE -1)
    ELSE IF f[1] THEN -1
    ELSE IF f[2] < n THEN -1
    ELSE IF f[2] > n THEN 1
    ELSE IF FracZero(f[3]) THEN 0 ELSE 1

\* _pick_weld_type(cell_c) with cell_alt = None: "JD", "D" or NoWeld (None)
NoWeld == "none"

PickWeldType(cell_c) ==
    LET t == Upper(IF cell_c = None THEN <<>> ELSE cell_c)
    IN  IF Contains(t, <<"J", "D">>) THEN "JD"
        ELSE IF Contains(t, <<"D">>) THEN "D"
        ELSE NoWeld

\* the upper bound 1e9 of the last band of PROBE_RULES
BandSentinel == 1000000000

\* picked[:8]
MaxProbes == 8

\* PROBE_RULES; the probe models are named
\*   P9A70 = A2.5P9x9A70, P9A60 = A2.5P9x9A60, P9A45 = A2.5P9x9A45,
\*   P13A70 = A2.5P13x13A70, P13A60 = A2.5P13x13A60, P13A45 = A2.5P13x13A45
ProbeRules ==
    [D  |-> << [low |-> 8,   high |-> 15,  models |-> <<"P9A70">>],
               [low |-> 15,  high |-> 25,  models |-> <<"P9A70">>],
               [low |-> 25,  high |-> 40,  models |-> <<"P9A70", "P9A45">>],
               [low |-> 40,  high |-> 50,  models |-> <<"P9A60", "P9A45">>],
               [low |-> 50,  high |-> 75,  models |-> <<"P13A70", "P13A45">>],
               [low |-> 75,  high |-> 100, models |-> <<"P13A60", "P13A45">>],
               [low |-> 100, high |-> BandSentinel, models |-> <<"P13A60", "P13A45">>] >>,
     JD |-> << [low |-> 8,   high |-> 15,  models |-> <<"P9A70">>],
               [low |-> 15,  high |-> 25,  models |-> <<"P9A70">>],
               [low |-> 25,  high |-> 40,  models |-> <<"P9A60", "P9A45">>],
               [low |-> 40,  high |-> 50,  models |-> <<"P9A70", "P9A60">>],
               [low |-> 50,  high |-> 75,  models |-> <<"P13A70", "P13A60", "P13A45">>],
               [low |-> 75,  high |-> 100, models |-> <<"P13A70", "P13A60", "P13A45">>],
               [low |-> 100, high |-> BandSentinel,
                models |-> <<"P9A70", "P13A70", "P13A60", "P13A45">>] >>]

\* _to_float(D) or _to_float(E): Python's `or` yields its second operand when
\* the first is falsy, and None and 0.0 (also -0.0) are both falsy
PyOr(a, b) == IF a = NoFloat \/ IsZero(a) THEN b ELSE a

\* InBand as (thickness > low) and (thickness <= high)
InBandUpperClosed(thickness, low, high) == Cmp(thickness, low) > 0 /\ Cmp(thickness, high) <= 0

\* (thickness >= low) and (thickness < high)
InBand(thickness, low, high) == Cmp(thickness, low) >= 0 /\ Cmp(thickness, high) < 0

\* the loop over the bands of one weld type, from band i on: the indices of
\* the bands whose models are applied; it breaks at the first match
RECURSIVE ApplyBands(_, _, _)
ApplyBands(thickness, rules, i) ==
    IF i > Len(rules) THEN <<>>
    ELSE IF InBand(thickness, rules[i].low, rules[i].high) THEN <<i>>
    ELSE ApplyBands(thickness, rules, i + 1)

\* AddModels without the `not in seen` test
RECURSIVE AddModelsNoDedup(_, _)
AddModelsNoDedup(ps, models) ==
    IF models = <<>> THEN ps
    ELSE AddModelsNoDedup([picked |-> Append(ps.picked, Head(models)),
                           seen |-> ps.seen \cup {Head(models)}], Tail(models))

\* AddModels with picked.insert(0, m) for picked.append(m)
RECURSIVE AddModelsPrepend(_, _)
AddModelsPrepend(ps, models) ==
    IF models = <<>> THEN ps
    ELSE AddModelsPrepend(
           IF Head(models) \in ps.seen THEN ps
           ELSE [picked |-> <<Head(models)>> \o ps.picked,
                 seen |-> ps.seen \cup {Head(models)}],
           Tail(models))

\* for m in models: if m not in seen: picked.append(m); seen.add(m)
RECURSIVE AddModels(_, _)
AddModels(ps, models) ==
    IF models = <<>> THEN ps
    ELSE AddModels(
           IF Head(models) \in ps.seen THEN ps
           ELSE [picked |-> Append(ps.picked, Head(models)),
                 seen |-> ps.seen \cup {Head(models)}],
           Tail(models))

Min(a, b) == IF a < b THEN a ELSE b

Max(a, b) == IF a > b THEN a ELSE b

\* the rows the two nested for loops visit, in order: each (s, e) clamped to
\* max(s, 2) .. min(e, last_row)
RECURSIVE RowsToVisit(_, _)
RowsToVisit(segs, last_row) ==
    IF segs = <<>> THEN <<>>
    ELSE LET s == Max(Head(segs)[1], 2)
             e == Min(Head(segs)[2], last_row)
         IN  [i \in 1..(IF e >= s THEN e - s + 1 ELSE 0) |-> s + i - 1]
             \o RowsToVisit(Tail(segs), last_row)

\* the body of the row loop for row r: the new picked/seen and the locals
ScanRow(row, ps) ==
    LET weld_type == PickWeldType(row.c)
        thickness == IF weld_type = NoWeld THEN NoFloat
                     ELSE PyOr(ToFloat(row.d), ToFloat(row.e))
        bands     == IF thickness = NoFloat THEN <<>>
                     ELSE ApplyBands(thickness, ProbeRules[weld_type], 1)
    IN  [weld_type |-> weld_type,
         thickness |-> thickness,
         bands     |-> bands,
         ps        |-> IF bands = <<>> THEN ps
                       ELSE AddModels(ps, ProbeRules[weld_type][bands[1]].models)]

\* return picked[:8]
ReturnPicked(ps) == SubSeq(ps, 1, Min(MaxProbes, Len(ps)))

NoIter == [row |-> 0, weld_type |-> NoWeld, thickness |-> NoFloat, bands |-> <<>>]

ProbeRowsDom == 2..(MaxProbeRows + 1)

\* rows the first data row may hold: every band boundary of both weld types,
\* values below the first band, at and above the last bound, cells without a
\* number, zero and negative primaries with and without a secondary
RichRows ==
    { [b |-> <<"w">>, c |-> <<"D">>, d |-> d, e |-> None] :
        d \in { None, <<"x">>, <<"0">>, <<"-", "1", "2">>, <<"7", ".", "9">>, <<"8">>,
                <<"1", "5">>, <<"2", "5", ".", "0">>, <<"4", "0">>, <<"5", "0">>,
                <<"7", "5">>, <<"1", "0", "0">>, <<"2", "5", "0", "0", ".", "5">>,
                <<"1", "0", "0", "0", "0", "0", "0", "0", "0", "0">> } }
    \cup
    { [b |-> <<"w">>, c |-> <<"D">>, d |-> d, e |-> <<"2", "0">>] :
        d \in { None, <<"0">>, <<"0", ".", "0">>, <<"-", "1", "2">>, <<"3", "0">> } }
    \cup
    { [b |-> <<"w">>, c |-> <<"j", "d", "1">>, d |-> d, e |-> None] :
        d \in { <<"7", ".", "9">>, <<"8">>, <<"1", "5">>, <<"2", "5">>, <<"4", "0", ".", "0">>,
                <<"5", "0">>, <<"7", "5">>, <<"1", "0", "0">>,
                <<"1", "0", "0", "0", "0", "0", "0", "0", "0", "0">> } }
    \cup
    { [b |-> <<"w">>, c |-> c, d |-> <<"2", "0">>, e |-> None] : c \in { None, <<"T">> } }
    \cup
    { [b |-> None, c |-> <<"D">>, d |-> <<"3", "0">>, e |-> None] }

\* rows the other data rows may hold
PlainRows ==
    { [b |-> <<"w">>, c |-> <<"D">>, d |-> <<"t", "=", "3", "0">>, e |-> None],
      [b |-> <<"w">>, c |-> <<"D">>, d |-> <<"4", "5">>, e |-> None],
      [b |-> <<"w">>, c |-> <<"D">>, d |-> None, e |-> <<"1", "2">>],
      [b |-> <<"w">>, c |-> <<"J", "D">>, d |-> <<"3", "0">>, e |-> None],
      [b |-> <<"w">>, c |-> <<"J", "D">>, d |-> <<"6", "0">>, e |-> None],
      [b |-> <<"w">>, c |-> <<"j", "d">>, d |-> <<"1", "2", "0">>, e |-> None],
      [b |-> <<"w">>, c |-> <<"T">>, d |-> <<"3", "0">>, e |-> None],
      [b |-> None, c |-> <<"D">>, d |-> <<"6", "0">>, e |-> None] }

\* the `segments` argument: None, or a list of row ranges (in any order,
\* possibly overlapping, empty or reaching outside the sheet)
SegmentChoices ==
    { [given |-> FALSE, list |-> <<>>],
      [given |-> TRUE, list |-> << <<2, MaxProbeRows + 1>> >>],
      [given |-> TRUE, list |-> << <<MaxProbeRows + 1, MaxProbeRows + 1>>, <<2, 2>> >>],
      [given |-> TRUE, list |-> << <<1, MaxProbeRows + 2>>, <<2, 2>> >>],
      [given |-> TRUE, list |-> << <<3, 2>>, <<3, MaxProbeRows + 1>> >>] }

ProbeInit ==
    /\ sheetRows \in [ProbeRowsDom -> RichRows \cup PlainRows]
    /\ sheetRows[2] \in RichRows
    /\ \A r \in ProbeRowsDom : r > 2 => sheetRows[r] \in PlainRows
    /\ segments \in SegmentChoices
    /\ prPc = "start"
    /\ visit = <<>>
    /\ picked = <<>>
    /\ seen = {}
    /\ iter = NoIter
    /\ prResult = <<>>

\* lines 495-501: last_row of column B, the default segments, picked and seen
ProbeStart ==
    /\ prPc = "start"
    /\ LET last_row == LastRowOf([r \in ProbeRowsDom |-> sheetRows[r].b])
           segs == IF segments.given THEN segments.list ELSE << <<2, last_row>> >>
       IN  visit' = RowsToVisit(segs, last_row)
    /\ picked' = <<>>
    /\ seen' = {}
    /\ prPc' = "scan"
    /\ UNCHANGED <<sheetRows, segments, iter, prResult>>
    /\ UNCHANGED <<segVars, basisVars, laterVars>>

\* lines 506-521: one iteration of the row loop
ProbeRow ==
    /\ prPc = "scan"
    /\ visit # <<>>
    /\ \E it \in {ScanRow(sheetRows[Head(visit)], [picked |-> picked, seen |-> seen])} :
         /\ picked' = it.ps.picked
         /\ seen' = it.ps.seen
         /\ iter' = [row |-> Head(visit), weld_type |-> it.weld_type,
                     thickness |-> it.thickness, bands |-> it.bands]
    /\ visit' = Tail(visit)
    /\ UNCHANGED <<sheetRows, segments, prPc, prResult>>
    /\ UNCHANGED <<segVars, basisVars, laterVars>>

\* line 522: return picked[:8]
ProbeReturn ==
    /\ prPc = "scan"
    /\ visit = <<>>
    /\ prResult' = ReturnPicked(picked)
    /\ prPc' = "done"
    /\ UNCHANGED <<sheetRows, segments, visit, picked, seen, iter>>
    /\ UNCHANGED <<segVars, basisVars, laterVars>>

ProbeNext == ProbeStart \/ ProbeRow \/ ProbeReturn

(***************************************************************************)
(* BasisCodeDispatcher: write_detection_basis                              *)
(***************************************************************************)
\* str.replace(old, new) for texts: leftmost occurrences, not overlapping
RECURSIVE ReplaceSub(_, _, _)
ReplaceSub(s, old, new) ==
    IF Len(s) < Len(old) THEN s
    ELSE IF SubSeq(s, 1, Len(old)) = old
    THEN new \o ReplaceSub(SubSeq(s, Len(old) + 1, Len(s)), old, new)
    ELSE <<Head(s)>> \o ReplaceSub(Tail(s), old, new)

\* NormalizeCode without the replacement of FwDash
NormalizeCodeEmDashOnly(s) ==
    ReplaceChar(ReplaceChar(Upper(s), " ", <<>>), "EmDash", <<"-">>)

\* normalize_code(s): upper(), then drop " ", then EmDash and FwDash to "-"
NormalizeCode(s) ==
    ReplaceChar(ReplaceChar(ReplaceChar(Upper(s), " ", <<>>), "EmDash", <<"-">>),
                "FwDash", <<"-">>)

\* norm = normalize_code(token).replace("GBT", "GB/T")
NormOf(token) == ReplaceSub(NormalizeCode(token), <<"G", "B", "T">>, <<"G", "B", "/", "T">>)

\* address_map, in the order of the dict literal
AddressMap ==
    << [code |-> <<"G", "B", "5", "0", "2", "0", "5", "-", "2", "0", "2", "0">>,
        addr |-> "B12:B12"],
       [code |-> <<"G", "B", "5", "0", "6", "6", "1", "-", "2", "0", "1", "1">>,
        addr |-> "C12:C12"],
       [code |-> <<"J", "G", "/", "T", "2", "0", "3", "-", "2", "0", "0", "7">>,
        addr |-> "D12:D12"],
       [code |-> <<"G", "B", "/", "T", "5", "0", "6", "2", "1", "-", "2", "0", "1", "0">>,
        addr |-> "E12:E12"],
       [code |-> <<"G", "B", "/", "T", "1", "1", "3", "4", "5", "-", "2", "0", "2", "3">>,
        addr |-> "F12:F12"],
       [code |-> <<"G", "B", "/", "T", "2", "9", "7", "1", "2", "-", "2", "0", "2", "3">>,
        addr |-> "G12:G12"],
       [code |-> <<"G", "B", "/", "T", "2", "9", "7", "1", "1", "-", "2", "0", "2", "3">>,
        addr |-> "H12:H12"] >>

CatchAll == "I12:J12"

\* the addresses the call clears first, in the order of the list
ClearList ==
    <<"B12:B12", "C12:C12", "D12:D12", "E12:E12", "F12:F12", "G12:G12", "H12:H12", "I12:J12">>

Slots == Range(ClearList)

\* put_value(sheet, rng, value): the value lands in the range's cell, whether
\* the range is merged or not
PutValue(sheet, rng, value) == [sheet EXCEPT ![rng] = value]

\* the characters [Dun FwComma , ; FwSemi \s] on which basis_str is split
IsSeparator(c) == c \in {"Dun", "FwComma", ",", ";", "FwSemi"} \/ IsSpace(c)

\* [t for t in re.split(<separators>+, basis_str) if t.strip()]: the maximal
\* runs of non-separator characters; cur is the run being read
RECURSIVE SplitTokens(_, _)
SplitTokens(s, cur) ==
    IF s = <<>> THEN (IF cur = <<>> THEN <<>> ELSE <<cur>>)
    ELSE IF IsSeparator(Head(s))
    THEN (IF cur = <<>> THEN <<>> ELSE <<cur>>) \o SplitTokens(Tail(s), <<>>)
    ELSE SplitTokens(Tail(s), Append(cur, Head(s)))

\* address_map[norm], or "" when norm is not a key
AddrOf(norm) ==
    IF \E i \in 1..Len(AddressMap) : AddressMap[i].code = norm
    THEN AddressMap[CHOOSE i \in 1..Len(AddressMap) : AddressMap[i].code = norm].addr
    ELSE ""

\* ", ".join(list)
RECURSIVE JoinCommaSpace(_)
JoinCommaSpace(list) ==
    IF list = <<>> THEN <<>>
    ELSE IF Len(list) = 1 THEN list[1]
    ELSE list[1] \o <<",", " ">> \o JoinCommaSpace(Tail(list))

\* ClearSlots with "I12:J12" missing from the list
ClearCodeSlotsOnly(sheet, i) ==
    [a \in DOMAIN sheet |-> IF a = CatchAll THEN sheet[a] ELSE <<>>]

\* the clearing loop over ClearList, from index i on
RECURSIVE ClearSlots(_, _)
ClearSlots(sheet, i) ==
    IF i > Len(ClearList) THEN sheet
    ELSE ClearSlots(PutValue(sheet, ClearList[i], <<>>), i + 1)

\* DispatchNorm without the `norm not in used` test: a repeated code is
\* written over the first one
DispatchKnownAlways(st, token, norm, addr) ==
    IF addr # ""
    THEN [st EXCEPT !.sheet = PutValue(st.sheet, addr, Strip(token)),
                    !.used = @ \cup {norm}]
    ELSE [st EXCEPT !.unknown_list = Append(@, Strip(token))]

\* one iteration of the token loop, given norm and address_map[norm] ("" when
\* norm is no key); st = [sheet, used, unknown_list]
DispatchNorm(st, token, norm, addr) ==
    IF addr # "" /\ norm \notin st.used
    THEN [st EXCEPT !.sheet = PutValue(st.sheet, addr, Strip(token)),
                    !.used = @ \cup {norm}]
    ELSE [st EXCEPT !.unknown_list = Append(@, Strip(token))]

\* norm and address_map[norm] are computed once per token
DispatchToken(st, token) ==
    CHOOSE res \in UNION { { DispatchNorm(st, token, norm, addr) : addr \in {AddrOf(norm)} } :
                           norm \in {NormOf(token)} } : TRUE

RECURSIVE DispatchAll(_, _)
DispatchAll(st, tokens) ==
    IF tokens = <<>> THEN st ELSE DispatchAll(DispatchToken(st, Head(tokens)), Tail(tokens))

\* write_detection_basis(sheet, basis_str): the sheet after the call
WriteDetectionBasis(sheet, basis_str) ==
    LET cleared == ClearSlots(sheet, 1)
    IN  IF basis_str = <<>> THEN cleared
        ELSE LET st == DispatchAll([sheet |-> cleared, used |-> {}, unknown_list |-> <<>>],
                                   SplitTokens(basis_str, <<>>))
             IN  IF st.unknown_list # <<>>
                 THEN PutValue(st.sheet, CatchAll, JoinCommaSpace(st.unknown_list))
                 ELSE st.sheet

\* the pieces (a token and the separator after it) a basis_str is made of
BasisPieces ==
    { <<"G", "B", "5", "0", "2", "0", "5", "-", "2", "0", "2", "0">> \o <<",", " ">>,
      <<"g", "b", "5", "0", "2", "0", "5", "EmDash", "2", "0", "2", "0">> \o <<"Dun">>,
      <<"G", "B", "T", "5", "0", "6", "2", "1", "-", "2", "0", "1", "0">> \o <<"FwSemi">>,
      <<"X", "Y", "Z", "-", "1">> \o <<" ">> }

RECURSIVE PieceTexts(_)
PieceTexts(n) ==
    IF n = 0 THEN {<<>>}
    ELSE PieceTexts(n - 1) \cup {t \o p : t \in PieceTexts(n - 1), p \in BasisPieces}

\* the basis_str values of the model: "" and up to MaxPieces pieces
BasisInputs == PieceTexts(MaxPieces)

\* what a slot of the template holds before the first call
OldText == <<"o", "l", "d">>

BasisInit ==
    /\ \E old \in {{}, {CatchAll}, Slots \ {CatchAll}, Slots} :
         sheet12 = [a \in Slots |-> IF a \in old THEN OldText ELSE <<>>]
    /\ lastBasis = <<>>
    /\ basisCalled = FALSE
    /\ clearedOld = FALSE

\* one call write_detection_basis(sheet, basis_str)
BasisCall ==
    /\ \E basis_str \in BasisInputs :
         /\ sheet12' = WriteDetectionBasis(sheet12, basis_str)
         /\ lastBasis' = basis_str
    /\ basisCalled' = TRUE
    /\ clearedOld' = (basisCalled /\ \E a \in Slots : sheet12[a] # <<>> /\ sheet12'[a] = <<>>)
    /\ UNCHANGED <<segVars, probeVars, laterVars>>

BasisNext == BasisCall

(***************************************************************************)
(* write_detection_basis on the spellings of one code                      *)
(***************************************************************************)
\* the lower-case letter of an upper-case one
LowerChar(c) ==
    IF \E k \in DOMAIN UpperOf : UpperOf[k] = c
    THEN CHOOSE k \in DOMAIN UpperOf : UpperOf[k] = c
    ELSE c

Lower(s) == [i \in 1..Len(s) |-> LowerChar(s[i])]

\* the codes whose spellings are dispatched: letters, the "/T" or "T" that may
\* follow them, the number and the year
SpellParts ==
    { [letters |-> <<"G", "B">>, t |-> {<<>>},
       number |-> <<"5", "0", "2", "0", "5">>, year |-> <<"2", "0", "2", "0">>],
      [letters |-> <<"J", "G">>, t |-> {<<"/", "T">>},
       number |-> <<"2", "0", "3">>, year |-> <<"2", "0", "0", "7">>],
      [letters |-> <<"G", "B">>, t |-> {<<"/", "T">>, <<"T">>},
       number |-> <<"5", "0", "6", "2", "1">>, year |-> <<"2", "0", "1", "0">>],
      [letters |-> <<"X", "Y", "Z">>, t |-> {<<>>},
       number |-> <<>>, year |-> <<"1">>] }

SpellCases == {"upper", "lower", "mixed"}

SpellDashes == {"-", "EmDash", "FwDash"}

\* the letters s (given in upper case) as an operator may have typed them
ApplyCase(c, s) ==
    IF c = "upper" THEN s
    ELSE IF c = "lower" THEN Lower(s)
    ELSE <<LowerChar(Head(s))>> \o Tail(s)

\* every spelling of every code of SpellParts
SpellTokens ==
    UNION { { ApplyCase(c, p.letters \o t) \o p.number \o <<d>> \o p.year :
                c \in SpellCases, t \in p.t, d \in SpellDashes } : p \in SpellParts }

\* the basis_str a token arrives in: alone, after a space, before ", "
SpellWraps(token) == { token, <<" ">> \o token, token \o <<",", " ">> }

SpellInit ==
    /\ normSheet = [a \in Slots |-> <<>>]
    /\ normToken = <<>>
    /\ prevSheet = [a \in Slots |-> <<>>]
    /\ prevToken = <<>>

\* one call write_detection_basis(sheet, basis_str), basis_str holding one token
SpellCall ==
    /\ \E token \in SpellTokens :
         \E basis_str \in SpellWraps(token) :
            /\ normSheet' = WriteDetectionBasis(normSheet, basis_str)
            /\ normToken' = token
    /\ prevSheet' = normSheet
    /\ prevToken' = normToken
    /\ UNCHANGED <<segVars, probeVars, basisVars, dateVars, extractVars, mainVars>>

SpellNext == SpellCall

(***************************************************************************)
(* DateLexicon: format_cn_date, parse_cn_date, parse_cn_date_range         *)
(***************************************************************************)
\* None where a datetime is expected; a datetime is <<year, month, day>>
NoDate == <<>>

\* a result not yet computed
Unset == <<"unset">>

DigitChar(k) ==
    CASE k = 0 -> "0" [] k = 1 -> "1" [] k = 2 -> "2" [] k = 3 -> "3" [] k = 4 -> "4"
      [] k = 5 -> "5" [] k = 6 -> "6" [] k = 7 -> "7" [] k = 8 -> "8" [] k = 9 -> "9"

\* str(n) of a natural number, as an f-string writes it: no padding
RECURSIVE IntToText(_)
IntToText(n) == IF n < 10 THEN <<DigitChar(n)>> ELSE Append(IntToText(n \div 10), DigitChar(n % 10))

\* FormatCnDate with month and day exchanged
FormatCnDateDayFirst(dt) ==
    IntToText(dt[1]) \o <<"Nian">> \o IntToText(dt[3]) \o <<"Yue">> \o IntToText(dt[2]) \o <<"Ri">>

\* format_cn_date(dt) = f"{dt.year}Nian{dt.month}Yue{dt.day}Ri"
FormatCnDate(dt) ==
    IntToText(dt[1]) \o <<"Nian">> \o IntToText(dt[2]) \o <<"Yue">> \o IntToText(dt[3]) \o <<"Ri">>

\* the pattern (\d{4})Nian(\d{1,2})Yue(\d{1,2})Ri tried at index i of s:
\* [y, m, d, end] with `end` the index after the match, or NoMatch.  A greedy
\* \d{1,2} that must give a digit back leaves a digit where Yue or Ri is needed.
DateMatchAt(s, i) ==
    LET n1 == Digits12(s, i + 5)
        j  == i + 5 + n1
        n2 == Digits12(s, j + 1)
        k  == j + 1 + n2
    IN  IF i + 4 > Len(s) THEN NoMatch
        ELSE IF \E q \in i..(i + 3) : ~IsDigit(s[q]) THEN NoMatch
        ELSE IF s[i + 4] # "Nian" THEN NoMatch
        ELSE IF n1 = 0 \/ j > Len(s) \/ s[j] # "Yue" THEN NoMatch
        ELSE IF n2 = 0 \/ k > Len(s) \/ s[k] # "Ri" THEN NoMatch
        ELSE [y |-> IntOf(SubSeq(s, i, i + 3)), m |-> IntOf(SubSeq(s, i + 5, j - 1)),
              d |-> IntOf(SubSeq(s, j + 1, k - 1)), end |-> k + 1]

\* re.findall(pattern, s) from index i on: the matches from left to right,
\* each search resuming where the previous match ended
RECURSIVE DateFindAll(_, _)
DateFindAll(s, i) ==
    IF i > Len(s) THEN <<>>
    ELSE LET hit == DateMatchAt(s, i)
         IN  IF hit = NoMatch THEN DateFindAll(s, i + 1)
             ELSE <<hit>> \o DateFindAll(s, hit.end)

\* parse_cn_date(s): re.search takes the leftmost match; the ValueError of
\* datetime() is caught and gives None
ParseCnDate(s) ==
    LET parts == DateFindAll(s, 1)
    IN  IF parts = <<>> THEN NoDate
        ELSE IF IsValidDate(parts[1].y, parts[1].m, parts[1].d)
        THEN <<parts[1].y, parts[1].m, parts[1].d>>
        ELSE NoDate

\* ParseCnDateRange without the `if not parts` test: parts[0] of an empty
\* list raises IndexError
ParseCnDateRangeNoEmptyTest(text) ==
    LET parts == DateFindAll(text, 1)
    IN  IF parts = <<>> \/ \E i \in 1..Min(2, Len(parts)) : ~IsValidDate(parts[i].y, parts[i].m, parts[i].d)
        THEN [raised |-> TRUE, start |-> NoDate, end |-> NoDate]
        ELSE [raised |-> FALSE,
              start |-> <<parts[1].y, parts[1].m, parts[1].d>>,
              end |-> IF Len(parts) = 1 THEN NoDate ELSE <<parts[2].y, parts[2].m, parts[2].d>>]

\* parse_cn_date_range(text): datetime() is called outside any try, so its
\* ValueError leaves the function
ParseCnDateRange(text) ==
    LET parts == DateFindAll(text, 1)
        ok(h) == IsValidDate(h.y, h.m, h.d)
        dt(h) == <<h.y, h.m, h.d>>
    IN  IF parts = <<>> THEN [raised |-> FALSE, start |-> NoDate, end |-> NoDate]
        ELSE IF Len(parts) = 1
        THEN (IF ok(parts[1])
              THEN [raised |-> FALSE, start |-> dt(parts[1]), end |-> NoDate]
              ELSE [raised |-> TRUE, start |-> NoDate, end |-> NoDate])
        ELSE (IF ok(parts[1]) /\ ok(parts[2])
              THEN [raised |-> FALSE, start |-> dt(parts[1]), end |-> dt(parts[2])]
              ELSE [raised |-> TRUE, start |-> NoDate, end |-> NoDate])

\* the years of the datetime values formatted: the ends of datetime's range,
\* both sides of the step from three to four digits, a leap and a common year
DateYears == {1, 999, 1000, 2024, 2025, 9999}

\* the datetime values that exist in those years
ValidDates ==
    { dt \in DateYears \X (1..12) \X (1..31) : IsValidDate(dt[1], dt[2], dt[3]) }

\* date-shaped tokens of a document: three real days and five that are none
DateTokens ==
    { <<"2", "0", "2", "5", "Nian", "3", "Yue", "1", "Ri">>,
      <<"2", "0", "2", "5", "Nian", "0", "3", "Yue", "0", "5", "Ri">>,
      <<"2", "0", "2", "4", "Nian", "2", "Yue", "2", "9", "Ri">>,
      <<"2", "0", "2", "5", "Nian", "2", "Yue", "3", "0", "Ri">>,
      <<"2", "0", "2", "5", "Nian", "2", "Yue", "2", "9", "Ri">>,
      <<"2", "0", "2", "5", "Nian", "1", "3", "Yue", "1", "Ri">>,
      <<"2", "0", "2", "5", "Nian", "4", "Yue", "3", "1", "Ri">>,
      <<"0", "0", "0", "0", "Nian", "1", "Yue", "1", "Ri">> }

\* texts that hold no date
DateNoise ==
    { <<>>, <<":", " ">>, <<"2", "0", "2", "5", "Nian", "3", "Yue">>,
      <<"2", "5", "Nian", "3", "Yue", "1", "Ri">> }

\* the texts parsed: noise, a token inside noise, two tokens, three tokens
DateTexts ==
    DateNoise
    \cup { a \o t \o b : a \in {<<>>, <<":", " ">>}, t \in DateTokens, b \in {<<>>, <<" ">>} }
    \cup { t1 \o <<"-">> \o t2 : t1 \in DateTokens, t2 \in DateTokens }
    \cup { t1 \o <<"-">> \o t2 \o <<"-">> \o t1 : t1 \in DateTokens, t2 \in DateTokens }

DateInit ==
    /\ \/ \E dt \in ValidDates : dtDate = dt /\ dtText = <<>> /\ dtPc = "format"
       \/ \E text \in DateTexts : dtDate = NoDate /\ dtText = text /\ dtPc = "parse"
    /\ dtParsed = Unset
    /\ dtRange = Unset

\* text = format_cn_date(dt)
DateFormat ==
    /\ dtPc = "format"
    /\ dtText' = FormatCnDate(dtDate)
    /\ dtPc' = "parse"
    /\ UNCHANGED <<dtDate, dtParsed, dtRange>>
    /\ UNCHANGED <<segVars, probeVars, basisVars, spellVars, extractVars, mainVars>>

\* parse_cn_date(text)
DateParse ==
    /\ dtPc = "parse"
    /\ dtParsed' = ParseCnDate(dtText)
    /\ dtPc' = "range"
    /\ UNCHANGED <<dtDate, dtText, dtRange>>
    /\ UNCHANGED <<segVars, probeVars, basisVars, spellVars, extractVars, mainVars>>

\* parse_cn_date_range(text)
DateParseRange ==
    /\ dtPc = "range"
    /\ dtRange' = ParseCnDateRange(dtText)
    /\ dtPc' = "done"
    /\ UNCHANGED <<dtDate, dtText, dtParsed>>
    /\ UNCHANGED <<segVars, probeVars, basisVars, spellVars, extractVars, mainVars>>

DateNext == DateFormat \/ DateParse \/ DateParseRange

(***************************************************************************)
(* FieldExtractor: is_label, value_after_label, first_date_str,            *)
(* extract_data_from_word                                                  *)
(*                                                                         *)
(* The keys of the result dict are written in ASCII:                       *)
(*   "weituo_bianhao" 委托编号        "gongcheng_mingcheng" 工程名称        *)
(*   "jiance_buwei" 检测部位          "caizhi" 材质                         *)
(*   "tantou_xinghao" 探头型号        "tanshang_riqi" 探伤日期              *)
(*   "zhixing_chuli" 执行处理         "zhiliang_dengji" 质量等级            *)
(*   "_yuanshi_tanshang_riqi_chuan" _原始探伤日期串                         *)
(***************************************************************************)
\* label_tokens, in the order of the list
LabelTokens ==
    << <<"u8D85", "u58F0", "u6CE2", "u63A2", "u4F24", "u62A5", "u544A">>,    \* 超声波探伤报告
       <<"u7F16", "u53F7">>,    \* 编号
       <<"u8BD5", "u9A8C", "u7F16", "u53F7">>,    \* 试验编号
       <<"u59D4", "u6258", "u7F16", "u53F7">>,    \* 委托编号
       <<"u5DE5", "u7A0B", "u540D", "u79F0", "u53CA">>,    \* 工程名称及
       <<"u65BD", "u5DE5", "u90E8", "u4F4D">>,    \* 施工部位
       <<"u59D4", "u6258", "u5355", "u4F4D">>,    \* 委托单位
       <<"u65BD", "u5DE5", "u5355", "u4F4D">>,    \* 施工单位
       <<"u76D1", "u7406", "u5355", "u4F4D">>,    \* 监理单位
       <<"u6784", "u4EF6", "u540D", "u79F0">>,    \* 构件名称
       <<"u68C0", "u6D4B", "u90E8", "u4F4D">>,    \* 检测部位
       <<"u6750", "u8D28">>,    \* 材质
       <<"u677F", "u539A">>,    \* 板厚
       <<"u4EEA", "u5668", "u578B", "u53F7">>,    \* 仪器型号
       <<"u8BD5", "u5757">>,    \* 试块
       <<"u8026", "u5408", "u5242">>,    \* 耦合剂
       <<"u8868", "u9762", "u8865", "u507F">>,    \* 表面补偿
       <<"u8868", "u9762", "u72B6", "u51B5">>,    \* 表面状况
       <<"u6267", "u884C", "u5904", "u7406">>,    \* 执行处理
       <<"u63A2", "u5934", "u578B", "u53F7">>,    \* 探头型号
       <<"u63A2", "u4F24", "Ri", "u671F">>,    \* 探伤日期
       <<"u6279", "u51C6">>,    \* 批准
       <<"u5BA1", "u6838">>,    \* 审核
       <<"u8BD5", "u9A8C">>,    \* 试验
       <<"u68C0", "u6D4B", "u5355", "u4F4D">>,    \* 检测单位
       <<"u62A5", "u544A", "Ri", "u671F">>,    \* 报告日期
       <<"u68C0", "u6D4B", "u5355", "u4F4D", "u540D", "u79F0">> >>    \* 检测单位名称

\* is_label(text): the trimmed text is empty or contains a label token
IsLabel(text) ==
    LET t == Strip(text)
    IN  t = <<>> \/ \E n \in 1..Len(LabelTokens) : Contains(t, LabelTokens[n])

\* value_after_label(row_cells, label_sub): the trimmed text of the first cell
\* after the first cell containing label_sub that is_label rejects, or None
ValueAfterLabel(row_cells, label_sub) ==
    LET indices == {i \in 1..Len(row_cells) : Contains(row_cells[i], label_sub)}
    IN  IF indices = {} THEN None
        ELSE LET j  == CHOOSE i \in indices : \A h \in indices : i <= h
                 ks == {k \in (j + 1)..Len(row_cells) :
                          Strip(row_cells[k]) # <<>> /\ ~IsLabel(Strip(row_cells[k]))}
             IN  IF ks = {} THEN None
                 ELSE Strip(row_cells[CHOOSE k \in ks : \A h \in ks : k <= h])

\* the (target, label) pairs of the table loop, in the order of the list
TargetLabels ==
    << [target |-> "weituo_bianhao", label |-> <<"u59D4", "u6258", "u7F16", "u53F7">>],    \* 委托编号
       [target |-> "gongcheng_mingcheng", label |-> <<"u5DE5", "u7A0B", "u540D", "u79F0", "u53CA">>],    \* 工程名称及
       [target |-> "jiance_buwei", label |-> <<"u68C0", "u6D4B", "u90E8", "u4F4D">>],    \* 检测部位
       [target |-> "caizhi", label |-> <<"u6750", "u8D28">>],    \* 材质
       [target |-> "tantou_xinghao", label |-> <<"u63A2", "u5934", "u578B", "u53F7">>],    \* 探头型号
       [target |-> "tanshang_riqi", label |-> <<"u63A2", "u4F24", "Ri", "u671F">>],    \* 探伤日期
       [target |-> "zhixing_chuli", label |-> <<"u6267", "u884C", "u5904", "u7406">>] >>    \* 执行处理

\* a dict with no key
EmptyDict == [k \in {} |-> <<>>]

\* d[key] = value
DictSet(d, key, value) == [k \in DOMAIN d \cup {key} |-> IF k = key THEN value ELSE d[k]]

\* d.get(key, "")
DictGet(d, key) == IF key \in DOMAIN d THEN d[key] ELSE <<>>

\* ExtractTargets with the test `target not in result` left out
RECURSIVE ExtractTargetsOverwrite(_, _, _)
ExtractTargetsOverwrite(result, cells, n) ==
    IF n > Len(TargetLabels) THEN result
    ELSE LET v == ValueAfterLabel(cells, TargetLabels[n].label)
         IN  ExtractTargetsOverwrite(IF v # None
                                     THEN DictSet(result, TargetLabels[n].target, v)
                                     ELSE result,
                                     cells, n + 1)

\* the loop over the (target, label) pairs for one row, from pair n on
RECURSIVE ExtractTargets(_, _, _)
ExtractTargets(result, cells, n) ==
    IF n > Len(TargetLabels) THEN result
    ELSE LET t == TargetLabels[n].target
         IN  ExtractTargets(IF t \notin DOMAIN result /\ ValueAfterLabel(cells, TargetLabels[n].label) # None
                            THEN DictSet(result, t, ValueAfterLabel(cells, TargetLabels[n].label))
                            ELSE result,
                            cells, n + 1)

\* [c.strip() for c in cells if c.strip()]
RECURSIVE StrippedNonEmpty(_)
StrippedNonEmpty(texts) ==
    IF texts = <<>> THEN <<>>
    ELSE (IF Strip(Head(texts)) = <<>> THEN <<>> ELSE <<Strip(Head(texts))>>)
         \o StrippedNonEmpty(Tail(texts))

\* "\n".join(list)
RECURSIVE JoinNL(_)
JoinNL(list) ==
    IF list = <<>> THEN <<>>
    ELSE IF Len(list) = 1 THEN list[1]
    ELSE list[1] \o <<"NL">> \o JoinNL(Tail(list))

\* least index i >= from with sub at i in s, 0 when there is none
IndexOf(s, sub, from) ==
    LET hits == {i \in from..(Len(s) - Len(sub) + 1) : SubSeq(s, i, i + Len(sub) - 1) = sub}
    IN  IF hits = {} THEN 0 ELSE CHOOSE i \in hits : \A h \in hits : i <= h

\* greatest index with sub at it in s, 0 when there is none
LastIndexOf(s, sub) ==
    LET hits == {i \in 1..(Len(s) - Len(sub) + 1) : SubSeq(s, i, i + Len(sub) - 1) = sub}
    IN  IF hits = {} THEN 0 ELSE CHOOSE i \in hits : \A h \in hits : i >= h

GradeLead == <<"u672C", "u6B21", "u68C0", "u6D4B", "u5171", "u6D4B", "u8BD5">>    \* 本次检测共测试
GradeTail == <<"u7EA7", "u710A", "u7F1D">>    \* 级焊缝
GradeOne == <<"u4E00", "u7EA7">>    \* 一级
GradeTwo == <<"u4E8C", "u7EA7">>    \* 二级
DateLabel == <<"u63A2", "u4F24", "Ri", "u671F">>    \* 探伤日期
BasisLabel == <<"u6267", "u884C", "u5904", "u7406">>    \* 执行处理

\* the pattern GradeLead([GradeOne[1] GradeTwo[1]])GradeTail at index i of s
GradeMatchAt(s, i) ==
    /\ i + Len(GradeLead) + Len(GradeTail) <= Len(s)
    /\ SubSeq(s, i, i + Len(GradeLead) - 1) = GradeLead
    /\ s[i + Len(GradeLead)] \in {GradeOne[1], GradeTwo[1]}
    /\ SubSeq(s, i + Len(GradeLead) + 1, i + Len(GradeLead) + Len(GradeTail)) = GradeTail

\* the quality grade of the full text, None when it names none
GradeOf(full_text) ==
    LET hits == {i \in 1..Len(full_text) : GradeMatchAt(full_text, i)}
    IN  IF hits # {}
        THEN <<full_text[(CHOOSE i \in hits : \A h \in hits : i <= h) + Len(GradeLead)], GradeTail[1]>>
        ELSE IF Contains(full_text, GradeOne) THEN GradeOne
        ELSE IF Contains(full_text, GradeTwo) THEN GradeTwo
        ELSE None

\* [0-9 Nian Yue Ri FwTilde \- \s]
InDateClass(c) == IsDigit(c) \/ c \in {"Nian", "Yue", "Ri", "FwTilde", "-"} \/ IsSpace(c)

IsAsciiLetter(c) == c \in DOMAIN UpperOf \/ c \in Range(UpperOf)

\* [A-Za-z0-9/ EmDash Dun FwComma , ; FwSemi \s -]
InBasisClass(c) ==
    \/ IsAsciiLetter(c) \/ IsDigit(c) \/ IsSpace(c)
    \/ c \in {"/", "EmDash", "Dun", "FwComma", ",", ";", "FwSemi", "-"}

\* membership in the character class of the date pattern ("date") or of the
\* applied-standards pattern ("basis")
InClass(class, c) == IF class = "date" THEN InDateClass(c) ELSE InBasisClass(c)

\* first index >= i of s whose character is outside the class
RECURSIVE SkipClass(_, _, _)
SkipClass(s, i, class) ==
    IF i <= Len(s) /\ InClass(class, s[i]) THEN SkipClass(s, i + 1, class) ELSE i

\* the pattern label[: FwColon]?\s*([class]+) tried at index i of s: group 1,
\* or NoMatch.  \s* takes all the whitespace; when no class character follows,
\* it gives the last whitespace character back to the group.
LabelRunAt(s, label, i, class) ==
    IF i + Len(label) - 1 > Len(s) \/ SubSeq(s, i, i + Len(label) - 1) # label THEN NoMatch
    ELSE LET p0 == i + Len(label)
             p  == IF p0 <= Len(s) /\ s[p0] \in {":", "FwColon"} THEN p0 + 1 ELSE p0
             q  == SkipSpace(s, p)
             e  == SkipClass(s, q, class)
         IN  IF e > q THEN [group |-> SubSeq(s, q, e - 1)]
             ELSE IF q > p THEN [group |-> <<s[q - 1]>>]
             ELSE NoMatch

\* re.search of that pattern: the leftmost match
LabelRunSearch(s, label, class) ==
    LET hits == {i \in 1..Len(s) : LabelRunAt(s, label, i, class) # NoMatch}
    IN  IF hits = {} THEN NoMatch
        ELSE LabelRunAt(s, label, CHOOSE i \in hits : \A h \in hits : i <= h, class)

\* first_date_str(date_range): the first date-shaped substring, else the
\* trimmed text
FirstDateStr(date_range) ==
    LET hits == {i \in 1..Len(date_range) : DateMatchAt(date_range, i) # NoMatch}
    IN  IF hits = {} THEN Strip(date_range)
        ELSE LET i == CHOOSE h \in hits : \A g \in hits : h <= g
             IN  SubSeq(date_range, i, DateMatchAt(date_range, i).end - 1)

\* lines 284-292: the quality grade
FallbackGrade(result, full_text) ==
    IF GradeOf(full_text) = None THEN result
    ELSE DictSet(result, "zhiliang_dengji", GradeOf(full_text))

\* lines 295-301: the inspection date taken from the full text when the tables
\* gave none, then cut to its first date
FallbackDate(result, full_text) ==
    LET hit == LabelRunSearch(full_text, DateLabel, "date")
        r1  == IF DictGet(result, "tanshang_riqi") = <<>> /\ hit # NoMatch
               THEN DictSet(result, "tanshang_riqi", Strip(hit.group))
               ELSE result
    IN  IF DictGet(r1, "tanshang_riqi") # <<>>
        THEN DictSet(r1, "tanshang_riqi", FirstDateStr(r1["tanshang_riqi"]))
        ELSE r1

\* lines 304-307: the applied standards taken from the full text
FallbackBasis(result, full_text) ==
    LET hit == LabelRunSearch(full_text, BasisLabel, "basis")
    IN  IF DictGet(result, "zhixing_chuli") = <<>> /\ hit # NoMatch
        THEN DictSet(result, "zhixing_chuli", Strip(hit.group))
        ELSE result

\* line 310: the text after the last DateLabel, else the date found
RawDateContext(result, full_text) ==
    LET at == LastIndexOf(full_text, DateLabel)
    IN  DictSet(result, "_yuanshi_tanshang_riqi_chuan",
                IF at # 0 THEN SubSeq(full_text, at + Len(DateLabel), Len(full_text))
                ELSE DictGet(result, "tanshang_riqi"))

\* lines 280-311 of extract_data_from_word
ExtractFallbacks(result, table_texts, paragraph_texts) ==
    CHOOSE res \in
        UNION { UNION { UNION { { RawDateContext(r3, full_text) :
                                    r3 \in {FallbackBasis(r2, full_text)} } :
                                r2 \in {FallbackDate(r1, full_text)} } :
                        r1 \in {FallbackGrade(result, full_text)} } :
                full_text \in {JoinNL(table_texts \o paragraph_texts)} } : TRUE


\* Rows of the document's tables: a label with an empty cell before its value
\* (the spec's example), with another label before its value, two fields in
\* one row, a label with no value, a value left of its label, a label inside
\* a longer cell, a value that contains a label token, a date range, a date
\* without a year, the applied standards, and two rows without any label.
DocRows ==
    { <<<<"u59D4", "u6258", "u7F16", "u53F7">>, <<>>, <<"2", "0", "2", "5", "-", "0", "4", "6", "1", "1", "1">>>>,
      <<<<"u59D4", "u6258", "u7F16", "u53F7">>, <<"u8BD5", "u9A8C", "u7F16", "u53F7">>, <<"A", "-", "2">>>>,
      <<<<"u59D4", "u6258", "u7F16", "u53F7">>, <<"A", "-", "1">>, <<"u6750", "u8D28">>, <<" ", "Q", "3", "5", "5", " ">>>>,
      <<<<"u59D4", "u6258", "u7F16", "u53F7">>, <<" ", " ">>, <<>>>>,
      <<<<"B", "-", "7">>, <<"u59D4", "u6258", "u7F16", "u53F7">>>>,
      <<<<"u5DE5", "u7A0B", "u540D", "u79F0", "u53CA", "u65BD", "u5DE5", "u90E8", "u4F4D">>, <<"T", "1">>>>,
      <<<<"u6750", "u8D28">>, <<"u8BD5", "u9A8C", "u94A2">>, <<"Q", "2", "3", "5">>>>,
      <<<<"u63A2", "u4F24", "Ri", "u671F">>, <<"2", "0", "2", "5", "Nian", "3", "Yue", "1", "Ri", "-", "2", "0", "2", "5", "Nian", "3", "Yue", "5", "Ri">>>>,
      <<<<"u63A2", "u4F24", "Ri", "u671F", "FwColon">>, <<"3", "Yue", "1", "Ri">>>>,
      <<<<"u6267", "u884C", "u5904", "u7406">>, <<"G", "B", "5", "0", "2", "0", "5", "-", "2", "0", "2", "0">>>>,
      <<<<"a", "b", "c">>, <<"u4E00", "u7EA7">>>>,
      <<<<"a", "b", "c">>, <<"d", "e", "f">>>> }

\* paragraph lists of a document
DocParas ==
    { <<>>,
      <<<<"a", "b", "c">>>>,
      <<<<" ", " ">>, <<"u4E8C", "u7EA7", "u710A", "u7F1D">>>>,
      <<<<"u672C", "u6B21", "u68C0", "u6D4B", "u5171", "u6D4B", "u8BD5", "u4E00", "u7EA7", "u710A", "u7F1D">>, <<"u4E8C", "u7EA7">>>>,
      <<<<"u63A2", "u4F24", "Ri", "u671F", "FwColon", "2", "0", "2", "5", "Nian", "4", "Yue", "2", "Ri", "FwTilde", "2", "0", "2", "5", "Nian", "4", "Yue", "3", "Ri">>>>,
      <<<<"u63A2", "u4F24", "Ri", "u671F">>, <<"u6267", "u884C", "u5904", "u7406", ":", " ", "G", "B", "T", "5", "0", "6", "2", "1", "-", "2", "0", "1", "0", "Dun", "X", "Y", "Z", "-", "1">>>> }

RECURSIVE RowLists(_)
RowLists(n) ==
    IF n = 0 THEN {<<>>}
    ELSE RowLists(n - 1) \cup {Append(l, r) : l \in RowLists(n - 1), r \in DocRows}

\* the table rows of a document, in document order: at most MaxDocRows rows
DocTables == RowLists(MaxDocRows)

ExtractInit ==
    /\ docRows \in DocTables
    /\ docParas \in DocParas
    /\ exPc = "rows"
    /\ exRow = 1
    /\ exTableTexts = <<>>
    /\ exResult = EmptyDict

\* one iteration of `for row in tbl.rows`
ExtractRow ==
    /\ exPc = "rows"
    /\ exRow <= Len(docRows)
    /\ exTableTexts' = exTableTexts \o StrippedNonEmpty(docRows[exRow])
    /\ exResult' = ExtractTargets(exResult, docRows[exRow], 1)
    /\ exRow' = exRow + 1
    /\ UNCHANGED <<docRows, docParas, exPc>>
    /\ UNCHANGED <<segVars, probeVars, basisVars, spellVars, dateVars, mainVars>>

\* the rest of extract_data_from_word, after the last row
ExtractRest ==
    /\ exPc = "rows"
    /\ exRow > Len(docRows)
    /\ exResult' = ExtractFallbacks(exResult, exTableTexts, StrippedNonEmpty(docParas))
    /\ exPc' = "done"
    /\ UNCHANGED <<docRows, docParas, exRow, exTableTexts>>
    /\ UNCHANGED <<segVars, probeVars, basisVars, spellVars, dateVars, mainVars>>

ExtractNext == ExtractRow \/ ExtractRest

\* the table loop as a whole: [result, table_texts] after the rows
RECURSIVE TableLoop(_, _, _)
TableLoop(result, table_texts, rows) ==
    IF rows = <<>> THEN [result |-> result, table_texts |-> table_texts]
    ELSE CHOOSE res \in
             { TableLoop(r, table_texts \o StrippedNonEmpty(Head(rows)), Tail(rows)) :
                 r \in {ExtractTargets(result, Head(rows), 1)} } : TRUE

\* extract_data_from_word as a whole
ExtractDataFromWord(rows, paras) ==
    CHOOSE res \in
        { ExtractFallbacks(t.result, t.table_texts, StrippedNonEmpty(paras)) :
            t \in {TableLoop(EmptyDict, <<>>, rows)} } : TRUE


(***************************************************************************)
(* The two readers of the data file as functions of the sheet             *)
(***************************************************************************)
\* parse_day_ranges_from_source(data_excel_path, year_hint) as a whole
ParseDayRanges(col, year_hint) ==
    LET last_row == LastRowOf(col)
        ms == ScanMarkers(col, 2, last_row)
    IN  IF last_row < 2 \/ ms = <<>> THEN <<>>
        ELSE SortByDate(BuildOut(GroupByDay(RangesPerDay(ms, 1), <<>>), year_hint,
                                 [raised |-> FALSE, out |-> <<>>]).out, <<>>)

\* the row loop of choose_probes_for_segments over the rows of `rows_left`
RECURSIVE ScanRows(_, _, _)
ScanRows(ps, rows_left, rows) ==
    IF rows_left = <<>> THEN ps
    ELSE ScanRows(ScanRow(rows[Head(rows_left)], ps).ps, Tail(rows_left), rows)

\* choose_probes_for_segments(data_excel_path, segments) as a whole; segs is
\* [given, list], given = FALSE standing for None
ChooseProbes(rows, segs) ==
    LET last_row == LastRowOf([r \in DOMAIN rows |-> rows[r].b])
        list == IF segs.given THEN segs.list ELSE << <<2, last_row>> >>
    IN  ReturnPicked(ScanRows([picked |-> <<>>, seen |-> {}],
                              RowsToVisit(list, last_row), rows).picked)

(***************************************************************************)
(* beijing_temp_guess_number, fill_sheet_basic, fill_sheet_data            *)
(***************************************************************************)
\* month_mean
MonthMean == <<-3, 0, 6, 14, 20, 24, 26, 25, 20, 13, 5, -1>>

\* str(n) of an integer
IntText(n) == IF n < 0 THEN <<"-">> \o IntToText(-n) ELSE IntToText(n)

\* round() of the fraction num / den, den > 0: to the nearest integer, a tie
\* to the even one
RoundHalfEven(num, den) ==
    LET q == num \div den
        r == num % den
    IN  IF 2 * r < den THEN q
        ELSE IF 2 * r > den THEN q + 1
        ELSE IF q % 2 = 0 THEN q ELSE q + 1

\* beijing_temp_guess_number(dt): "" without a date; the mean of the month
\* moved towards the next month's by (day - 1) / (days - 1), plus
\* ((day * 37) % 5) - 2, rounded.  (For the years of the model
\* datetime(year + 1, 1, 1) exists.)
TempGuess(dt) ==
    IF dt = NoDate THEN <<>>
    ELSE LET month == dt[2]
             day   == dt[3]
             next_month == IF month = 12 THEN 1 ELSE month + 1
             days_in_month == DaysInMonth(dt[1], month)
             den  == Max(days_in_month - 1, 1)
             wiggle == ((day * 37) % 5) - 2
             num  == MonthMean[month] * den
                     + (day - 1) * (MonthMean[next_month] - MonthMean[month])
                     + wiggle * den
         IN  IntText(RoundHalfEven(num, den))

\* window_start, window_end
WindowStart == <<2025, 3, 12>>

WindowEnd == <<2025, 4, 9>>

\* a <= b for datetime values
DateLeq(a, b) == a = b \/ DateLess(a, b)

\* InstrumentFor with `chosen_date < window_end`
InstrumentForEndExcluded(chosen_date) ==
    IF chosen_date # NoDate /\ DateLeq(WindowStart, chosen_date) /\ DateLess(chosen_date, WindowEnd)
    THEN <<"1", "3", "-", "2", "7">>
    ELSE <<"2", "2", "-", "7", "2">>

\* "13-27" if chosen_date and (window_start <= chosen_date <= window_end) else "22-72"
InstrumentFor(chosen_date) ==
    IF chosen_date # NoDate /\ DateLeq(WindowStart, chosen_date) /\ DateLeq(chosen_date, WindowEnd)
    THEN <<"1", "3", "-", "2", "7">>
    ELSE <<"2", "2", "-", "7", "2">>

\* the cells of the basic sheet that fill_sheet_basic writes
BasicCells ==
    { "B2:D2", "F2:J2", "B3:D3", "B4:D4", "F3:J3", "B5:D5", "F5:J5", "B6:D6", "F7:J7",
      "F8:J8", "B9:D9", "F9:G9", "B10:D10", "F10:J10", "F11:J11", "B21:J21",
      "B11", "C11", "F6", "H6", "I6", "B7:D7", "B8:D8",
      "B13", "B14", "B15", "B16", "B17", "B18", "B19", "B20" } \cup Slots

\* what a cell of a fresh template holds
TemplateText == <<"t", "p", "l">>

TemplateSheet == [c \in BasicCells |-> TemplateText]

\* a sequence of writes <<cell, value>> applied in order: every cell holds
\* the value of the last write to it
PutAll(sheet, writes) ==
    [c \in DOMAIN sheet |->
        LET hits == {i \in 1..Len(writes) : writes[i][1] = c}
        IN  IF hits = {} THEN sheet[c]
            ELSE writes[CHOOSE i \in hits : \A h \in hits : h <= i][2]]

\* lines 562-569: the fixed values
FixedValues ==
    << <<"B5:D5", <<"u4E8E", "u5F81">>>>,    \* 于征
       <<"F5:J5", <<"u89D2", "u5EA6">>>>,    \* 角度
       <<"F7:J7", <<"4", "d", "B">>>>,    \* 4dB
       <<"F8:J8", <<"D", "A", "C", "-", "1", "4", "d", "B">>>>,    \* DAC-14dB
       <<"B9:D9", <<"u78E8", "u5149">>>>,    \* 磨光
       <<"B10:D10", <<"u6C14", "u4FDD">>>>,    \* 气保
       <<"F10:J10", <<"u710A", "u540E", "2", "4", "h">>>>,    \* 焊后24h
       <<"F11:J11", <<"L">>>> >>    \* L

\* lines 594-600: test blocks and couplant
BlockValues ==
    << <<"F6", <<"C", "S", "K", "-", "I", "A">>>>,    \* CSK-IA
       <<"H6", <<"R", "B", "-", "1">>>>,    \* RB-1
       <<"I6", <<"R", "B", "-", "2">>>>,    \* RB-2
       <<"B7:D7", <<"u5316", "u5B66", "u6D46", "u7CCA">>>>,    \* 化学浆糊
       <<"B8:D8", <<"u5316", "u5B66", "u6D46", "u7CCA">>>> >>    \* 化学浆糊

CornerButt == <<"u89D2", "u5BF9", "u63A5", "u710A", "u7F1D">>    \* 角对接焊缝
Butt == <<"u5BF9", "u63A5", "u710A", "u7F1D">>    \* 对接焊缝
OneSide == <<"u5355", "u9762", "u5355", "u4FA7">>    \* 单面单侧
TwoSides == <<"u5355", "u9762", "u53CC", "u4FA7">>    \* 单面双侧
NoteBoth == <<"u6CE8", "FwColon", "D", "u8868", "u793A", "u5BF9", "u63A5", "Dun", "J", "D", "u8868", "u793A", "u89D2", "u5BF9", "u63A5">>    \* 注：D表示对接、JD表示角对接
NoteCorner == <<"u6CE8", "FwColon", "J", "D", "u8868", "u793A", "u89D2", "u5BF9", "u63A5">>    \* 注：JD表示角对接
NoteButt == <<"u6CE8", "FwColon", "D", "u8868", "u793A", "u5BF9", "u63A5">>    \* 注：D表示对接

\* lines 579-591: scan mode and remark, from the inspection location
ScanWrites(part) ==
    IF Contains(part, CornerButt) /\ Contains(part, Butt)
    THEN << <<"B11", OneSide>>, <<"C11", TwoSides>>, <<"B21:J21", NoteBoth>> >>
    ELSE IF Contains(part, CornerButt)
    THEN << <<"B11", OneSide>>, <<"B21:J21", NoteCorner>> >>
    ELSE << <<"B11", TwoSides>>, <<"B21:J21", NoteButt>> >>

\* lines 572-576: the fields taken from the document, each written only when
\* it has a value
FieldWrites(data, chosen_date) ==
    (IF DictGet(data, "gongcheng_mingcheng") # <<>>
     THEN << <<"B2:D2", data["gongcheng_mingcheng"]>> >> ELSE <<>>)
    \o (IF DictGet(data, "weituo_bianhao") # <<>>
        THEN << <<"F2:J2", data["weituo_bianhao"]>> >> ELSE <<>>)
    \o (IF DictGet(data, "caizhi") # <<>> THEN << <<"B6:D6", data["caizhi"]>> >> ELSE <<>>)
    \o (IF chosen_date # NoDate THEN << <<"F3:J3", FormatCnDate(chosen_date)>> >> ELSE <<>>)
    \o (IF DictGet(data, "zhiliang_dengji") # <<>>
        THEN << <<"F9:G9", data["zhiliang_dengji"]>> >> ELSE <<>>)

ProbeCells == <<"B13", "B14", "B15", "B16", "B17", "B18", "B19", "B20">>

\* lines 606-616: B13..B20 cleared, then the first 8 probes written; without
\* override_probes (None) the probes are the document's probe models, split
ProbeWrites(data, override_probes) ==
    LET probes == IF override_probes # None THEN override_probes
                  ELSE SplitTokens(Strip(DictGet(data, "tantou_xinghao")), <<>>)
    IN  [i \in 1..Len(ProbeCells) |-> <<ProbeCells[i], <<>> >>]
        \o [i \in 1..Min(Len(probes), Len(ProbeCells)) |-> <<ProbeCells[i], probes[i]>>]

\* fill_sheet_basic(workbook, data, override_date, override_probes): the basic
\* sheet after the call
FillSheetBasic(sheet, data, override_date, override_probes) ==
    LET date_from_word == ParseCnDate(DictGet(data, "tanshang_riqi"))
        chosen_date == IF override_date # NoDate THEN override_date ELSE date_from_word
        temp_number == TempGuess(chosen_date)
        s1 == PutValue(sheet, "B3:D3", InstrumentFor(chosen_date))
        s2 == IF temp_number # <<>> THEN PutValue(s1, "B4:D4", temp_number) ELSE s1
        s3 == PutAll(s2, FixedValues \o FieldWrites(data, chosen_date)
                         \o ScanWrites(DictGet(data, "jiance_buwei")) \o BlockValues)
        s4 == WriteDetectionBasis(s3, DictGet(data, "zhixing_chuli"))
    IN  PutAll(s4, ProbeWrites(data, override_probes))

\* the tuple of one source row that fill_sheet_data collects, with the mark
\* column L gets: a row of the sheet, or empty cells beyond the sheet
DataRow(rows, r) ==
    LET v == IF r \in DOMAIN rows THEN rows[r] ELSE [b |-> None, c |-> None, d |-> None, e |-> None]
    IN  [a |-> v.b, d |-> v.c, e |-> v.d, f |-> v.e,
         mark |-> \E x \in {v.b, v.c, v.d, v.e} : x \notin {None, <<>>, <<" ">>}]

\* the loop of fill_sheet_data over row_ranges: every row s..e of every
\* range with e >= s
RECURSIVE RowsOfRanges(_)
RowsOfRanges(row_ranges) ==
    IF row_ranges = <<>> THEN <<>>
    ELSE LET s == Head(row_ranges)[1]
             e == Head(row_ranges)[2]
         IN  [i \in 1..(IF e >= s THEN e - s + 1 ELSE 0) |-> s + i - 1]
             \o RowsOfRanges(Tail(row_ranges))

\* fill_sheet_data(workbook, data_excel_path, row_ranges): the rows written
\* from row 3 of the data sheet on, <<>> when the call writes nothing; segs is
\* [given, list], given = FALSE standing for None.  (The data file has no
\* remark column.)
FillSheetData(rows, segs) ==
    LET last_row_src == LastRowOf([r \in DOMAIN rows |-> rows[r].b])
    IN  IF ~segs.given /\ last_row_src < 2 THEN <<>>
        ELSE LET list == IF segs.given THEN segs.list ELSE << <<2, last_row_src>> >>
                 rs == RowsOfRanges(list)
             IN  [i \in 1..Len(rs) |-> DataRow(rows, rs[i])]


(***************************************************************************)
(* main: one run of the program on a document and a data file              *)
(***************************************************************************)
\* a document with no table and no paragraph
DocEmpty ==
    [rows  |-> <<>>,
     paras |-> <<>>]

\* a document with text and no label: table row (abc, def), paragraph xyz
DocPlain ==
    [rows  |-> << << <<"a", "b", "c">>, <<"d", "e", "f">> >> >>,
     paras |-> << <<"x", "y", "z">> >>]

\* a document whose only text is the cell 二级
DocGradeOnly ==
    [rows  |-> << << <<"u4E8C", "u7EA7">> >> >>,
     paras |-> <<>>]

\* rows 委托编号 | WT-1 | 材质 | Q355, 工程名称及 | X | 检测部位 | 角对接焊缝 and
\* 探伤日期 | 2025年3月12日 | 执行处理 | GB50205-2020, XYZ-1; paragraph 一级
DocFull ==
    [rows  |-> << << <<"u59D4", "u6258", "u7F16", "u53F7">>, <<"W", "T", "-", "1">>, <<"u6750", "u8D28">>, <<"Q", "3", "5", "5">> >>,
                  << <<"u5DE5", "u7A0B", "u540D", "u79F0", "u53CA">>, <<"X">>, <<"u68C0", "u6D4B", "u90E8", "u4F4D">>, <<"u89D2", "u5BF9", "u63A5", "u710A", "u7F1D">> >>,
                  << <<"u63A2", "u4F24", "Ri", "u671F">>, <<"2", "0", "2", "5", "Nian", "3", "Yue", "1", "2", "Ri">>, <<"u6267", "u884C", "u5904", "u7406">>, <<"G", "B", "5", "0", "2", "0", "5", "-", "2", "0", "2", "0", ",", " ", "X", "Y", "Z", "-", "1">> >> >>,
     paras |-> << <<"u4E00", "u7EA7">> >>]

\* 探伤日期 2025年3月11日
DocBefore ==
    [rows  |-> << << <<"u63A2", "u4F24", "Ri", "u671F">>, <<"2", "0", "2", "5", "Nian", "3", "Yue", "1", "1", "Ri">> >> >>,
     paras |-> <<>>]

\* the paragraph 探伤日期：2025年4月9日～2025年4月10日
DocRange ==
    [rows  |-> <<>>,
     paras |-> << <<"u63A2", "u4F24", "Ri", "u671F", "FwColon", "2", "0", "2", "5", "Nian", "4", "Yue", "9", "Ri", "FwTilde", "2", "0", "2", "5", "Nian", "4", "Yue", "1", "0", "Ri">> >>]

\* 探伤日期 2025年4月10日 / 检测部位 对接焊缝
DocAfter ==
    [rows  |-> << << <<"u63A2", "u4F24", "Ri", "u671F">>, <<"2", "0", "2", "5", "Nian", "4", "Yue", "1", "0", "Ri">> >>,
                  << <<"u68C0", "u6D4B", "u90E8", "u4F4D">>, <<"u5BF9", "u63A5", "u710A", "u7F1D">> >> >>,
     paras |-> <<>>]

\* 探伤日期 2024年3月12日
DocLeapYear ==
    [rows  |-> << << <<"u63A2", "u4F24", "Ri", "u671F">>, <<"2", "0", "2", "4", "Nian", "3", "Yue", "1", "2", "Ri">> >> >>,
     paras |-> <<>>]

\* 探伤日期 2025年2月30日
DocNoSuchDay ==
    [rows  |-> << << <<"u63A2", "u4F24", "Ri", "u671F">>, <<"2", "0", "2", "5", "Nian", "2", "Yue", "3", "0", "Ri">> >> >>,
     paras |-> <<>>]

MainDocs ==
    { DocEmpty, DocPlain, DocGradeOnly, DocFull, DocBefore, DocRange, DocAfter,
      DocLeapYear, DocNoSuchDay }

MainRowsDom == 2..(MaxMainRows + 1)

\* what column F of the data file may hold in a run
MainCells ==
    { None,
      <<"x">>,
      <<"3", ".", "1", "1">>,
      <<"3", ".", "1", "2">>,
      <<"4", "/", "9">>,
      <<"4", ".", "1", "0">>,
      <<"2", ".", "2", "9">> }

\* columns B..E of the data file: a sheet whose rows differ in weld type and
\* thickness, and a sheet whose column B is populated in row 2 only
MainSheets ==
    { [r \in MainRowsDom |->
          IF r % 3 = 2 THEN [b |-> <<"w">>, c |-> <<"D">>, d |-> <<"3", "0">>, e |-> None]
          ELSE IF r % 3 = 0 THEN [b |-> <<"w">>, c |-> <<"J", "D">>, d |-> <<"6", "0">>, e |-> None]
          ELSE [b |-> <<"w">>, c |-> <<"D">>, d |-> None, e |-> <<"1", "2">>]],
      [r \in MainRowsDom |->
          IF r = 2 THEN [b |-> <<"w">>, c |-> <<"D">>, d |-> <<"4", "5">>, e |-> None]
          ELSE [b |-> None, c |-> <<"J", "D">>, d |-> <<"3", "0">>, e |-> None]] }

\* datetime.now().year
NowYears == {2025, 2026}

\* what the operator may type at a prompt
MainInputs == { <<>>, <<"x">>, <<"Q", " ">> }

\* input(...).strip().lower() == "q"
IsQuit(user) == Lower(Strip(user)) = <<"q">>

\* the state before main runs: the two input files, the clock, no workbook filled
MainInit ==
    /\ \E d \in MainDocs : docRows = d.rows /\ docParas = d.paras
    /\ colF \in [MainRowsDom -> MainCells]
    /\ sheetRows \in MainSheets
    /\ nowYear \in NowYears
    /\ mainPc = "extract"
    /\ dataFromWord = EmptyDict
    /\ baseYear = 0
    /\ dayGroups = <<>>
    /\ dayIdx = 0
    /\ answers = <<>>
    /\ filled = <<>>

\* line 842: data_from_word = extract_data_from_word(word_file)
MainExtract ==
    /\ mainPc = "extract"
    /\ dataFromWord' = ExtractDataFromWord(docRows, docParas)
    /\ mainPc' = "year"
    /\ UNCHANGED <<baseYear, dayGroups, dayIdx, answers, filled>>
    /\ UNCHANGED <<nowYear, segVars, probeVars, basisVars, spellVars, dateVars, extractVars>>

\* start_date or parse_cn_date(...) or datetime.now(), then .year
BaseYearOf(start_date, data, now_year) ==
    LET d == ParseCnDate(DictGet(data, "tanshang_riqi"))
    IN  IF start_date # NoDate THEN start_date[1]
        ELSE IF d # NoDate THEN d[1]
        ELSE now_year

\* lines 844-845: the year hint; a ValueError of parse_cn_date_range is not
\* caught by main and ends the run
MainYear ==
    /\ mainPc = "year"
    /\ \A r \in {ParseCnDateRange(DictGet(dataFromWord, "_yuanshi_tanshang_riqi_chuan"))} :
          IF r.raised
          THEN /\ mainPc' = "raised"
               /\ baseYear' = baseYear
          ELSE /\ mainPc' = "segment"
               /\ baseYear' = BaseYearOf(r.start, dataFromWord, nowYear)
    /\ UNCHANGED <<dataFromWord, dayGroups, dayIdx, answers, filled>>
    /\ UNCHANGED <<nowYear, segVars, probeVars, basisVars, spellVars, dateVars, extractVars>>

\* line 848: day_groups = parse_day_ranges_from_source(data_excel_path, base_year);
\* the multi-day loop starts at idx = 1
MainSegment ==
    /\ mainPc = "segment"
    /\ dayGroups' = ParseDayRanges(colF, baseYear)
    /\ dayIdx' = IF dayGroups' = <<>> THEN 0 ELSE 1
    /\ mainPc' = "wait"
    /\ UNCHANGED <<dataFromWord, baseYear, answers, filled>>
    /\ UNCHANGED <<nowYear, segVars, probeVars, basisVars, spellVars, dateVars, extractVars>>

\* one round of the loop of wait_active_workbook: with an active workbook it
\* returns; without one it reads a line, "q" ends the run with sys.exit(1)
\* and anything else starts the next round
MainWait ==
    /\ mainPc = "wait"
    /\ \E active \in BOOLEAN, user \in MainInputs :
          mainPc' = IF active THEN "fill"
                    ELSE IF IsQuit(user) THEN "exit1"
                    ELSE "wait"
    /\ UNCHANGED <<dataFromWord, baseYear, dayGroups, dayIdx, answers, filled>>
    /\ UNCHANGED <<nowYear, segVars, probeVars, basisVars, spellVars, dateVars, extractVars>>

\* a probe model as the text of a cell
ProbeTexts(probes) == [i \in 1..Len(probes) |-> <<probes[i]>>]

\* choose_probes_for_segments, fill_sheet_basic and fill_sheet_data on the
\* active workbook (a fresh template): what the workbook then holds, with the
\* arguments of the calls
FillWorkbook(data, rows, override_date, segs) ==
    LET probes_today == ChooseProbes(rows, segs)
    IN  [override_date |-> override_date,
         row_ranges    |-> segs,
         probes_today  |-> probes_today,
         basic |-> FillSheetBasic(TemplateSheet, data, override_date, ProbeTexts(probes_today)),
         data  |-> FillSheetData(rows, segs)]

\* lines 854-864: the single-date branch
MainSingleFill ==
    /\ mainPc = "fill"
    /\ dayGroups = <<>>
    /\ filled' = Append(filled,
                        FillWorkbook(dataFromWord, sheetRows,
                                     ParseCnDate(DictGet(dataFromWord, "tanshang_riqi")),
                                     [given |-> FALSE, list |-> <<>>]))
    /\ mainPc' = "done"
    /\ UNCHANGED <<dataFromWord, baseYear, dayGroups, dayIdx, answers>>
    /\ UNCHANGED <<nowYear, segVars, probeVars, basisVars, spellVars, dateVars, extractVars>>

\* lines 882-894: the body of the multi-day loop for day idx, after the
\* workbook is there; the loop then goes on to the prompt of the next day
MainDayFill ==
    /\ mainPc = "fill"
    /\ dayGroups # <<>>
    /\ filled' = Append(filled,
                        FillWorkbook(dataFromWord, sheetRows, dayGroups[dayIdx].dt,
                                     [given |-> TRUE, list |-> dayGroups[dayIdx].ranges]))
    /\ IF dayIdx < Len(dayGroups)
       THEN /\ dayIdx' = dayIdx + 1
            /\ mainPc' = "prompt"
       ELSE /\ dayIdx' = dayIdx
            /\ mainPc' = "done"
    /\ UNCHANGED <<dataFromWord, baseYear, dayGroups, answers>>
    /\ UNCHANGED <<nowYear, segVars, probeVars, basisVars, spellVars, dateVars, extractVars>>

\* lines 876-879: before every day but the first the operator is asked to
\* prepare the next template; "q" ends the run with sys.exit(0)
MainPrompt ==
    /\ mainPc = "prompt"
    /\ \E user \in MainInputs :
          /\ answers' = Append(answers, user)
          /\ mainPc' = IF IsQuit(user) THEN "exit0" ELSE "wait"
    /\ UNCHANGED <<dataFromWord, baseYear, dayGroups, dayIdx, filled>>
    /\ UNCHANGED <<nowYear, segVars, probeVars, basisVars, spellVars, dateVars, extractVars>>

MainNext ==
    \/ MainExtract
    \/ MainYear
    \/ MainSegment
    \/ MainWait
    \/ MainSingleFill
    \/ MainDayFill
    \/ MainPrompt


(***************************************************************************)
(* Placeholders: the components a specification does not run stay idle     *)
(***************************************************************************)
SegOff ==
    /\ colF = [r \in SegRows |-> None]
    /\ yearHint = 2025
    /\ segPc = "off"
    /\ SegIdle

ProbeOff ==
    /\ sheetRows = <<>>
    /\ segments = [given |-> FALSE, list |-> <<>>]
    /\ prPc = "off"
    /\ visit = <<>>
    /\ picked = <<>>
    /\ seen = {}
    /\ iter = NoIter
    /\ prResult = <<>>

BasisOff ==
    /\ sheet12 = <<>>
    /\ lastBasis = <<>>
    /\ basisCalled = FALSE
    /\ clearedOld = FALSE

SpellOff ==
    /\ normSheet = <<>>
    /\ normToken = <<>>
    /\ prevSheet = <<>>
    /\ prevToken = <<>>

DateOff ==
    /\ dtPc = "off"
    /\ dtDate = NoDate
    /\ dtText = <<>>
    /\ dtParsed = Unset
    /\ dtRange = Unset

ExtractOff ==
    /\ docRows = <<>>
    /\ docParas = <<>>
    /\ exPc = "off"
    /\ exRow = 0
    /\ exTableTexts = <<>>
    /\ exResult = EmptyDict

MainOff ==
    /\ nowYear = 2025
    /\ mainPc = "off"
    /\ dataFromWord = EmptyDict
    /\ baseYear = 0
    /\ dayGroups = <<>>
    /\ dayIdx = 0
    /\ answers = <<>>
    /\ filled = <<>>

\* the locals of the components main calls as functions
MainLocalsOff ==
    /\ yearHint = 2025
    /\ segPc = "off"
    /\ SegIdle
    /\ segments = [given |-> FALSE, list |-> <<>>]
    /\ prPc = "off"
    /\ visit = <<>>
    /\ picked = <<>>
    /\ seen = {}
    /\ iter = NoIter
    /\ prResult = <<>>
    /\ exPc = "off"
    /\ exRow = 0
    /\ exTableTexts = <<>>
    /\ exResult = EmptyDict

LaterOff == SpellOff /\ DateOff /\ ExtractOff /\ MainOff

\* DaySegmenter run on every column of the model, under both year hints
InitSeg == SegInit /\ ProbeOff /\ BasisOff /\ LaterOff

SpecSeg == InitSeg /\ [][SegNext]_vars

InitProbe == ProbeInit /\ SegOff /\ BasisOff /\ LaterOff

\* ProbeSelector run on every sheet and segment list of the model
SpecProbe == InitProbe /\ [][ProbeNext]_vars

InitBasis == BasisInit /\ SegOff /\ ProbeOff /\ LaterOff

\* any sequence of BasisCodeDispatcher calls on one sheet
SpecBasis == InitBasis /\ [][BasisNext]_vars

InitSpell == SpellInit /\ SegOff /\ ProbeOff /\ BasisOff /\ DateOff /\ ExtractOff /\ MainOff

\* any sequence of one-token calls on one sheet, over every spelling
SpecSpell == InitSpell /\ [][SpellNext]_vars

InitDate == DateInit /\ SegOff /\ ProbeOff /\ BasisOff /\ SpellOff /\ ExtractOff /\ MainOff

\* the three DateLexicon functions on every date and text of the model
SpecDate == InitDate /\ [][DateNext]_vars

InitExtract == ExtractInit /\ SegOff /\ ProbeOff /\ BasisOff /\ SpellOff /\ DateOff /\ MainOff

\* extract_data_from_word on every document of the model
SpecExtract == InitExtract /\ [][ExtractNext]_vars

InitMain == MainInit /\ MainLocalsOff /\ BasisOff /\ SpellOff /\ DateOff

\* main on every document, data file, clock and operator of the model
SpecMain == InitMain /\ [][MainNext]_vars

(***************************************************************************)
(* DaySegmenter: what the claims say, stated from the sheet alone          *)
(***************************************************************************)
\* What the claims speak of, computed from the sheet alone:
\*   rows   the rows of column F that hold a date marker
\*   md     row -> <<month, day>> of its marker
\*   range  row -> (previous marker row of any date + 1 .. row), the previous
\*          row being 1 for the first marker
\*   valid  the marker rows whose (month, day) is a calendar date of yearHint
SegRefOf(mm, rows) ==
    LET prev(r) == LET before == {q \in rows : q < r}
                   IN  IF before = {} THEN 1 ELSE SetMax(before)
    IN  [rows  |-> rows,
         md    |-> [r \in rows |-> mm[r]],
         range |-> [r \in rows |-> <<prev(r) + 1, r>>],
         valid |-> {r \in rows : IsValidDate(yearHint, mm[r][1], mm[r][2])},
         date  |-> [r \in rows |-> <<yearHint, mm[r][1], mm[r][2]>>]]

SegRef ==
    CHOOSE v \in UNION { { SegRefOf(mm, rows) :
                             rows \in { {r \in 2..LastRowOf(colF) : mm[r] # NoMatch} } } :
                         mm \in { [r \in SegRows |-> CellMarker(colF[r])] } } : TRUE

RowsOf(rng) == rng[1]..rng[2]

SegDone == segPc = "done"

\* the spec's example: markers "3.31" at row 5 and "4/4" at row 9, year 2025
ExampleColumn ==
    [r \in 2..9 |-> IF r = 5 THEN <<"3", ".", "3", "1">>
                    ELSE IF r = 9 THEN <<"4", "/", "4">> ELSE None]

ExampleSegments ==
    LET ms  == ScanMarkers(ExampleColumn, 2, LastRowOf(ExampleColumn))
        res == BuildOut(GroupByDay(RangesPerDay(ms, 1), <<>>), 2025,
                        [raised |-> FALSE, out |-> <<>>])
    IN  SortByDate(res.out, <<>>)

\* C1: every marker row r is attributed the inclusive range
\* (previous marker row + 1 .. r), the first range starting at row 2; the
\* markers of one (month, day) put their ranges, in row order, under one day,
\* and the returned segments hold exactly the ranges of their date's markers.
\* On the spec's example the result is [(Mar 31, [(2,5)]), (Apr 4, [(6,9)])].
C1_PartitionRule ==
    segPc \in {"emit", "done"} =>
    \A v \in {SegRef}, d2r \in {dayToRanges}, out \in {segResult.out} :
    /\ segPc \in {"emit", "done"} /\ markers # <<>> =>
         /\ \A r \in v.rows :
              \E i \in 1..Len(d2r) :
                 /\ d2r[i].key = v.md[r]
                 /\ v.range[r] \in Range(d2r[i].ranges)
         /\ \A i, j \in 1..Len(d2r) : d2r[i].key = d2r[j].key => i = j
         /\ \A i \in 1..Len(d2r) :
              /\ Len(d2r[i].ranges) = Cardinality({r \in v.rows : v.md[r] = d2r[i].key})
              /\ \A k \in 1..Len(d2r[i].ranges) :
                   \E r \in v.rows : v.md[r] = d2r[i].key /\ d2r[i].ranges[k] = v.range[r]
              /\ \A k, l \in 1..Len(d2r[i].ranges) :
                   k < l => d2r[i].ranges[k][2] < d2r[i].ranges[l][2]
         /\ \A r \in v.rows : (\A q \in v.rows : r <= q) => v.range[r][1] = 2
    /\ SegDone /\ ~segResult.raised =>
         /\ \A r \in v.valid :
              \E i \in 1..Len(out) :
                 out[i].dt = v.date[r] /\ v.range[r] \in Range(out[i].ranges)
         /\ \A i, j \in 1..Len(out) : out[i].dt = out[j].dt => i = j
         /\ \A i \in 1..Len(out) :
              Range(out[i].ranges) = {v.range[r] : r \in {q \in v.rows : v.date[q] = out[i].dt}}
    /\ ExampleSegments = << [dt |-> <<2025, 3, 31>>, ranges |-> << <<2, 5>> >>],
                            [dt |-> <<2025, 4, 4>>, ranges |-> << <<6, 9>> >>] >>

\* C1 witness: a finished run with two markers of one date separated by a
\* marker of another date, the first marker below row 2: one day holds two
\* ranges
C1_Witness ==
    /\ SegDone
    /\ Len(segResult.out) = 2
    /\ \E i \in 1..Len(segResult.out) : Len(segResult.out[i].ranges) = 2
    /\ colF[2] = None

\* C2: in every result the ranges of one DaySegment are in ascending row
\* order without overlap, every range has start <= end, and no row lies in
\* ranges of two different DaySegments.
C2_RangesDisjointOrdered ==
    LET out == segResult.out IN
    SegDone =>
      /\ \A i \in 1..Len(out) :
           LET rs == out[i].ranges
           IN  /\ \A k \in 1..Len(rs) : rs[k][1] <= rs[k][2]
               /\ \A k, l \in 1..Len(rs) : k < l => rs[k][2] < rs[l][1]
      /\ \A i, j \in 1..Len(out) :
           i # j =>
             \A k \in 1..Len(out[i].ranges), l \in 1..Len(out[j].ranges) :
                RowsOf(out[i].ranges[k]) \cap RowsOf(out[j].ranges[l]) = {}

\* C2 witness: a result with two segments, one of them holding two ranges of
\* which one spans several rows
C2_Witness ==
    /\ SegDone
    /\ Len(segResult.out) >= 2
    /\ \E i \in 1..Len(segResult.out) :
         /\ Len(segResult.out[i].ranges) >= 2
         /\ \E k \in 1..Len(segResult.out[i].ranges) :
              segResult.out[i].ranges[k][1] < segResult.out[i].ranges[k][2]

\* C3: a marker whose (month, day) is no calendar date under the year hint
\* yields no DaySegment and no error; the run completes and the segments are
\* exactly those of the valid markers under the partition rule, so the rows
\* ending at the bad marker belong to no segment.
C3_BadMarkerDropped ==
    SegDone =>
    \A v \in {SegRef}, out \in {segResult.out} :
    SegDone =>
      /\ ~segResult.raised
      /\ Len(out) = Cardinality({v.date[r] : r \in v.valid})
      /\ \A i \in 1..Len(out) :
           /\ \E r \in v.valid : out[i].dt = v.date[r]
           /\ Range(out[i].ranges) = {v.range[r] : r \in {q \in v.valid : v.date[q] = out[i].dt}}
      /\ \A r \in v.rows \ v.valid :
           \A i \in 1..Len(out) :
              \A k \in 1..Len(out[i].ranges) :
                 RowsOf(out[i].ranges[k]) \cap RowsOf(v.range[r]) = {}

\* C3 witness: a finished run whose column holds a bad marker between two
\* valid markers of different dates
C3_Witness ==
    /\ SegDone
    /\ Len(segResult.out) = 2
    /\ \E v \in {SegRef} :
         \E b \in v.rows \ v.valid :
            /\ \E r \in v.valid : r < b
            /\ \E r \in v.valid : r > b

(***************************************************************************)
(* ProbeSelector: what the claims say                                      *)
(***************************************************************************)
ProbeDone == prPc = "done"

\* a row iteration has run and classified the row's weld type
RowScanned == prPc \in {"scan", "done"} /\ iter.row # 0 /\ iter.weld_type \in {"D", "JD"}

\* the float is exactly the integer b
ExactInt(f, b) == ~f[1] /\ f[2] = b /\ FracZero(f[3])

BandBoundaries == {8, 15, 25, 40, 50, 75, 100}

NoDuplicates(seq) == \A i, j \in 1..Len(seq) : seq[i] = seq[j] => i = j

\* C4: the returned list has at most 8 entries and no model identifier twice,
\* for every sheet and every list of row ranges or none.
C4_AtMost8NoDuplicates ==
    ProbeDone => Len(prResult) <= 8 /\ NoDuplicates(prResult)

\* C4 witness: a finished run over rows whose bands share models, returning
\* all six models of the table
C4_Witness ==
    /\ ProbeDone
    /\ Len(prResult) = 6
    /\ segments.given

\* C5: matching is half-open and first-match: a thickness exactly at a band
\* boundary b in {8, 15, 25, 40, 50, 75, 100} applies the band whose lower
\* bound is b and no other, for both weld types; at most one band is applied
\* per row; a thickness below 8 applies none.
C5_HalfOpenFirstMatch ==
    RowScanned /\ iter.thickness # NoFloat =>
      \A rules \in {ProbeRules[iter.weld_type]} :
        /\ Len(iter.bands) <= 1
        /\ \A b \in BandBoundaries :
             /\ \E j \in 1..Len(rules) : rules[j].low = b
             /\ ExactInt(iter.thickness, b) =>
                  \E j \in 1..Len(rules) :
                     /\ rules[j].low = b
                     /\ iter.bands = <<j>>
                     /\ Range(rules[j].models) \subseteq Range(picked)
        /\ (iter.thickness[1] \/ iter.thickness[2] < 8) => iter.bands = <<>>

\* C5 witness: a corner-butt row whose thickness 40.0 is the upper bound of
\* band 3 and the lower bound of band 4, and band 4 was applied
C5_Witness ==
    /\ RowScanned
    /\ iter.weld_type = "JD"
    /\ iter.thickness # NoFloat
    /\ ExactInt(iter.thickness, 40)
    /\ iter.bands = <<4>>

\* C6: every thickness >= 100, however large, applies the last band (band 7)
\* of the row's weld type.  (The code's last band ends at BandSentinel: a
\* thickness of 1000000000 applies no band.)
C6_LastBandUnbounded ==
    RowScanned /\ iter.thickness # NoFloat =>
      (~iter.thickness[1] /\ iter.thickness[2] >= 100 => iter.bands = <<7>>)

\* C7: the thickness used is the number of the primary cell whenever that
\* cell yields one (0 and negatives included), the number of the secondary
\* cell only when the primary yields none; the row is skipped only when
\* neither cell yields a number.  (The code joins the two cells with `or`: a
\* primary of 0 counts as absent.)
C7_PrimaryThicknessFirst ==
    RowScanned =>
      \A pr \in {ToFloat(sheetRows[iter.row].d)}, se \in {ToFloat(sheetRows[iter.row].e)} :
        iter.thickness = (IF pr # NoFloat THEN pr ELSE se)

\* the models of the band a row matches, from the sheet: none for a row that
\* is skipped
RECURSIVE ConcatAll(_)
ConcatAll(ss) == IF ss = <<>> THEN <<>> ELSE Head(ss) \o ConcatAll(Tail(ss))

RowModels(row) ==
    LET wt == PickWeldType(row.c)
        t  == IF wt = NoWeld THEN NoFloat ELSE PyOr(ToFloat(row.d), ToFloat(row.e))
    IN  IF t = NoFloat THEN <<>>
        ELSE LET hit == {j \in 1..Len(ProbeRules[wt]) :
                           /\ Cmp(t, ProbeRules[wt][j].low) >= 0
                           /\ Cmp(t, ProbeRules[wt][j].high) < 0}
             IN  IF hit = {} THEN <<>> ELSE ProbeRules[wt][CHOOSE j \in hit : TRUE].models

\* every matched band's models, row after row in visiting order
AllModels ==
    LET last_row == LastRowOf([r \in ProbeRowsDom |-> sheetRows[r].b])
        segs == IF segments.given THEN segments.list ELSE << <<2, last_row>> >>
        rows == RowsToVisit(segs, last_row)
    IN  ConcatAll([i \in 1..Len(rows) |-> RowModels(sheetRows[rows[i]])])

\* seq without the later occurrences of its elements
FirstOccurrences(seq) ==
    LET keep == {i \in 1..Len(seq) : \A j \in 1..(i - 1) : seq[j] # seq[i]}
        nth(k) == CHOOSE i \in keep : Cardinality({j \in keep : j < i}) = k - 1
    IN  [k \in 1..Cardinality(keep) |-> seq[nth(k)]]

\* C8: the output is the first 8 elements of the sequence of all matched
\* models, rows in visiting order and models in table order, reduced to the
\* first occurrence of each model.
C8_FirstSeenOrderTruncated ==
    ProbeDone =>
      \A fo \in {FirstOccurrences(AllModels)} :
        prResult = SubSeq(fo, 1, IF Len(fo) < 8 THEN Len(fo) ELSE 8)

\* C8 witness: a finished run in which a later row repeats a model of an
\* earlier row and adds a new one behind it
C8_Witness ==
    /\ ProbeDone
    /\ Len(prResult) >= 3
    /\ \E am \in {AllModels} :
         \E i, j, k \in 1..Len(am) : i < j /\ j < k /\ am[i] = am[j] /\ am[k] = prResult[Len(prResult)]
                                     /\ \A h \in 1..(k - 1) : am[h] # am[k]

(***************************************************************************)
(* BasisCodeDispatcher: what the claims say                                *)
(***************************************************************************)
\* the elements of seq at the indices in keep, in order
SubSeqAt(seq, keep) ==
    LET nth(k) == CHOOSE i \in keep : Cardinality({j \in keep : j < i}) = k - 1
    IN  [k \in 1..Cardinality(keep) |-> seq[nth(k)]]

\* the tokens of the latest input, their normal forms, and the indices of
\* the tokens that are the first with the normal form of a known code
LastTokens == SplitTokens(lastBasis, <<>>)

KnownCodes == {AddressMap[k].code : k \in 1..Len(AddressMap)}

FirstHits(toks, norms) ==
    {i \in 1..Len(toks) : norms[i] \in KnownCodes /\ \A j \in 1..(i - 1) : norms[j] # norms[i]}

\* C9: within one call every code slot is written at most once, by the first
\* token whose normal form is that code, with the token's original text; every
\* other token (a repeated code, an unknown code) is in the catch-all, in input
\* order and original text; so each token is in exactly one place.
C9_FirstTokenWinsRestCatchAll ==
    basisCalled =>
      \A toks \in {LastTokens} :
        \A norms \in {[i \in 1..Len(toks) |-> NormOf(toks[i])]} :
          \A first \in {FirstHits(toks, norms)} :
            /\ \A k \in 1..Len(AddressMap) :
                 LET hits == {i \in first : norms[i] = AddressMap[k].code}
                 IN  /\ Cardinality(hits) <= 1
                     /\ sheet12[AddressMap[k].addr]
                          = (IF hits = {} THEN <<>> ELSE toks[CHOOSE i \in hits : TRUE])
            /\ sheet12[CatchAll]
                 = JoinCommaSpace(SubSeqAt(toks, (1..Len(toks)) \ first))
            /\ Cardinality({k \in 1..Len(AddressMap) : sheet12[AddressMap[k].addr] # <<>>})
                 + Cardinality((1..Len(toks)) \ first) = Len(toks)

\* C9 witness: the input "GB50205-2020, XYZ-1 gb50205(EmDash)2020(Dun)": the
\* first token fills its slot, the unknown token and the later spelling of the
\* same code are in the catch-all, in input order
C9_Witness ==
    /\ basisCalled
    /\ Len(LastTokens) = 3
    /\ sheet12["B12:B12"] = LastTokens[1]
    /\ sheet12[CatchAll] = LastTokens[2] \o <<",", " ">> \o LastTokens[3]
    /\ LastTokens[2] = <<"X", "Y", "Z", "-", "1">>
    /\ NormOf(LastTokens[3]) = NormOf(LastTokens[1])
    /\ LastTokens[3] # LastTokens[1]

\* C10: after any sequence of calls the eight slots reflect the latest call
\* only: a slot is empty unless the latest input holds a token dispatched to
\* it, and after a call with empty input all eight slots are empty.
C10_SlotsReflectLastCall ==
    basisCalled =>
      \A toks \in {LastTokens} :
        /\ lastBasis = <<>> => \A a \in Slots : sheet12[a] = <<>>
        /\ \A k \in 1..Len(AddressMap) :
             sheet12[AddressMap[k].addr] # <<>> =>
               \E i \in 1..Len(toks) :
                  /\ NormOf(toks[i]) = AddressMap[k].code
                  /\ sheet12[AddressMap[k].addr] = toks[i]
        /\ sheet12[CatchAll] # <<>> =>
             \E i \in 1..Len(toks) :
                \/ NormOf(toks[i]) \notin KnownCodes
                \/ \E j \in 1..(i - 1) : NormOf(toks[j]) = NormOf(toks[i])
        /\ \A a \in Slots : sheet12[a] # OldText

\* C10 witness: a call with empty input right after a call that had filled
\* slots: all eight slots are empty again
C10_Witness ==
    /\ basisCalled
    /\ clearedOld
    /\ lastBasis = <<>>
    /\ \A a \in Slots : sheet12[a] = <<>>

(***************************************************************************)
(* C11: spelling variants of a basis code                                  *)
(***************************************************************************)
\* a token with the differences the claim names taken away: letter case,
\* EmDash and FwDash against "-", "GB/T" against "GBT"
SpellFold(t) ==
    ReplaceSub(ReplaceChar(ReplaceChar(Lower(t), "EmDash", <<"-">>), "FwDash", <<"-">>),
               <<"g", "b", "/", "t">>, <<"g", "b", "t">>)

SameSpelling(t1, t2) == SpellFold(t1) = SpellFold(t2)

GBT50621 == <<"G", "B", "T", "5", "0", "6", "2", "1", "-", "2", "0", "1", "0">>

\* C11: two tokens that differ only in letter case, in EmDash/FwDash against
\* "-", or in "GBT" against "GB/T" are dispatched to the same slot, the slot
\* shows the token as typed (trimmed), and "GBT50621-2010" goes to the slot of
\* "GB/T50621-2010" (E12).
C11_SpellingVariantsSameSlot ==
    /\ (prevToken # <<>> /\ SameSpelling(prevToken, normToken)) =>
          \E a \in Slots :
             /\ normSheet[a] = Strip(normToken)
             /\ prevSheet[a] = Strip(prevToken)
             /\ \A b \in Slots \ {a} : normSheet[b] = <<>> /\ prevSheet[b] = <<>>
    /\ normToken = GBT50621 => normSheet["E12:E12"] = GBT50621

\* C11 witness: "gb/t50621(FwDash)2010" then "GBT50621-2010", both shown in E12
C11_Witness ==
    /\ prevToken = <<"g", "b", "/", "t", "5", "0", "6", "2", "1", "FwDash", "2", "0", "1", "0">>
    /\ normToken = GBT50621
    /\ prevSheet["E12:E12"] = prevToken
    /\ normSheet["E12:E12"] = normToken

(***************************************************************************)
(* C12, C13: DateLexicon                                                   *)
(***************************************************************************)
\* parse_cn_date was applied to the text format_cn_date made of dtDate
Formatted == dtDate # NoDate /\ dtPc \in {"range", "done"}

\* C12 as stated: for every valid calendar date (y, m, d), parsing the text the
\* formatter produces yields exactly (y, m, d).  (A year below 1000 is written
\* with fewer than four digits, which the parser's pattern does not match.)
C12_RoundTripAllDates == Formatted => dtParsed = dtDate

\* C12 amended: for every valid calendar date with a year of four digits
\* (1000..9999), parsing the text the formatter produces yields exactly the
\* date.
C12_RoundTripFourDigitYears == (Formatted /\ dtDate[1] >= 1000) => dtParsed = dtDate

\* C12 witness: 2025-03-01 formatted as "2025Nian3Yue1Ri" and parsed back
C12_Witness ==
    /\ Formatted
    /\ dtDate = <<2025, 3, 1>>
    /\ dtText = <<"2", "0", "2", "5", "Nian", "3", "Yue", "1", "Ri">>
    /\ dtParsed = <<2025, 3, 1>>

\* the first two date-shaped tokens of the text, as the pattern reads them
FirstTwoTokens(text) ==
    LET parts == DateFindAll(text, 1)
    IN  SubSeq(parts, 1, IF Len(parts) < 2 THEN Len(parts) ELSE 2)

IsRealDay(h) ==
    /\ h.y \in 1..9999
    /\ h.m \in 1..12
    /\ h.d \in 1..(IF h.m \in {4, 6, 9, 11} THEN 30
                   ELSE IF h.m # 2 THEN 31
                   ELSE IF (h.y % 4 = 0 /\ h.y % 100 # 0) \/ h.y % 400 = 0 THEN 29 ELSE 28)

\* C13: a date-shaped token that is no real calendar day never makes a parser
\* raise: parse_cn_date gives "no date" when its token is none, and
\* parse_cn_date_range returns, with "no date" in the place of such a token.
\* (parse_cn_date_range calls datetime() outside any try: it raises.)
C13_MalformedDatesNeverRaise ==
    dtPc = "done" =>
       \A toks \in {FirstTwoTokens(dtText)} :
          /\ (toks # <<>> /\ ~IsRealDay(toks[1])) => dtParsed = NoDate
          /\ ~dtRange.raised
          /\ (toks # <<>> /\ ~IsRealDay(toks[1])) => dtRange.start = NoDate
          /\ (Len(toks) = 2 /\ ~IsRealDay(toks[2])) => dtRange.end = NoDate

(***************************************************************************)
(* C14: FieldExtractor table rule                                          *)
(***************************************************************************)
\* what a row yields for a label, in the claim's words: the trimmed text of
\* the first cell right of the first label-containing cell that is non-empty
\* and not label-classified; None when the row has no such cell
RowYield(cells, label) ==
    LET withLabel == {i \in 1..Len(cells) : Contains(cells[i], label)}
        values    == {k \in 1..Len(cells) :
                        /\ withLabel # {}
                        /\ \A i \in withLabel : \E h \in withLabel : h <= i /\ h < k
                        /\ Strip(cells[k]) # <<>>
                        /\ ~IsLabel(Strip(cells[k]))}
    IN  IF values = {} THEN None
        ELSE Strip(cells[CHOOSE k \in values : \A h \in values : k <= h])

\* the value of the first of the rows 1..n that yields one, None when none does
FirstYield(rows, n, label) ==
    LET yielding == {r \in 1..n : RowYield(rows[r], label) # None}
    IN  IF yielding = {} THEN None
        ELSE RowYield(rows[CHOOSE r \in yielding : \A h \in yielding : r <= h], label)

ExampleRow == <<<<"u59D4", "u6258", "u7F16", "u53F7">>, <<>>, <<"2", "0", "2", "5", "-", "0", "4", "6", "1", "1", "1">>>>

ExampleValue == <<"2", "0", "2", "5", "-", "0", "4", "6", "1", "1", "1">>

\* C14: for each target field a row yields a value only as the first cell to
\* the right of the first label-containing cell whose trimmed text is
\* non-empty and not label-classified; in document order the first row that
\* yields a value fixes the field and no later row overwrites it; the row
\* ["weituo_bianhao label", "", "2025-046111"] yields "2025-046111".  (When the
\* function returns, the inspection date is that row's value cut to its first
\* date.)
C14_FirstYieldingRowWins ==
    /\ exPc \in {"rows", "done"} =>
          \A n \in 1..Len(TargetLabels) :
             \A t \in {TargetLabels[n].target} :
                \A v \in {FirstYield(docRows, exRow - 1, TargetLabels[n].label)} :
                   /\ (exPc = "rows" /\ v = None) => t \notin DOMAIN exResult
                   /\ (exPc = "rows" /\ v # None) => t \in DOMAIN exResult /\ exResult[t] = v
                   /\ (exPc = "done" /\ v # None) =>
                         /\ t \in DOMAIN exResult
                         /\ exResult[t] = IF t = "tanshang_riqi" THEN FirstDateStr(v) ELSE v
    /\ (exPc \in {"rows", "done"} /\ exRow > 1 /\ docRows[1] = ExampleRow) =>
          /\ "weituo_bianhao" \in DOMAIN exResult
          /\ exResult["weituo_bianhao"] = ExampleValue

\* C14 witness: the example row, then a row with another value for the same
\* field and a value for a second field
C14_Witness ==
    /\ exPc = "done"
    /\ docRows = <<ExampleRow, <<<<"u59D4", "u6258", "u7F16", "u53F7">>, <<"A", "-", "1">>, <<"u6750", "u8D28">>, <<" ", "Q", "3", "5", "5", " ">>>>>>
    /\ exResult["weituo_bianhao"] = ExampleValue
    /\ exResult["caizhi"] = <<"Q", "3", "5", "5">>

(***************************************************************************)
(* main: what the claims say about a run                                   *)
(***************************************************************************)
\* every text of the document: the table cells and the paragraphs
DocTexts ==
    UNION {{docRows[i][j] : j \in 1..Len(docRows[i])} : i \in 1..Len(docRows)}
    \cup {docParas[k] : k \in 1..Len(docParas)}

\* no text of the document contains a label of the vocabulary
NoLabelText ==
    \A t \in DocTexts : \A n \in 1..Len(LabelTokens) : ~Contains(t, LabelTokens[n])

\* some text of the document contains one of the two grade keywords
HasGradeKeyword == \E t \in DocTexts : Contains(t, GradeOne) \/ Contains(t, GradeTwo)

\* no cell of column F reads as a date marker
NoDateMarkers == \A r \in DOMAIN colF : CellMarker(colF[r]) = NoMatch

RawKey == "_yuanshi_tanshang_riqi_chuan"

\* C15 as stated: a document with no recognizable label text (no label of
\* the vocabulary, no grade keyword) and a data file with no date marker give
\* a FieldMap with no key present and an empty DaySegmenter result, and no
\* step of the run raises.
C15_DegradedRunNoKey ==
    (NoLabelText /\ ~HasGradeKeyword /\ NoDateMarkers) =>
        /\ mainPc # "raised"
        /\ mainPc # "extract" => DOMAIN dataFromWord = {}
        /\ dayGroups = <<>>

\* C15, amended: with no label of the vocabulary in the document and no date
\* marker in the data file, the FieldMap holds the raw-date-context key with
\* the empty string, the quality grade exactly when the text contains a grade
\* keyword, and no other key; the DaySegmenter result is empty; no step
\* raises, and the run ends after one single-block fill.
C15_DegradedRunOnlyRawContext ==
    (NoLabelText /\ NoDateMarkers) =>
        /\ mainPc # "raised"
        /\ mainPc # "extract" =>
              /\ DOMAIN dataFromWord =
                    {RawKey} \cup (IF HasGradeKeyword THEN {"zhiliang_dengji"} ELSE {})
              /\ dataFromWord[RawKey] = <<>>
        /\ dayGroups = <<>>
        /\ Len(filled) <= 1
        /\ mainPc = "done" => Len(filled) = 1 /\ ~filled[1].row_ranges.given

\* a run on the document of plain text and a column F without markers has
\* ended after its single-block fill
C15_Witness ==
    /\ NoLabelText /\ NoDateMarkers
    /\ docParas # <<>>
    /\ \E r \in DOMAIN colF : colF[r] # None
    /\ mainPc = "done"
    /\ Len(filled) = 1
    /\ DOMAIN dataFromWord = {RawKey}

\* what C16 says of a state of a multi-day run
C16_State ==
    dayGroups # <<>> =>
        /\ \A k \in 1..(Len(dayGroups) - 1) : DateLess(dayGroups[k].dt, dayGroups[k + 1].dt)
        /\ Len(filled) <= Len(dayGroups)
        /\ \A k \in 1..Len(filled) :
              LET day == [given |-> TRUE, list |-> dayGroups[k].ranges]
              IN  /\ filled[k].override_date = dayGroups[k].dt
                  /\ filled[k].row_ranges = day
                  /\ filled[k].probes_today = ChooseProbes(sheetRows, day)
                  /\ filled[k].basic["F3:J3"] = FormatCnDate(dayGroups[k].dt)
                  /\ filled[k].data = FillSheetData(sheetRows, day)
        /\ mainPc = "done" => Len(filled) = Len(dayGroups)
        /\ Len(answers) <= Len(filled)
        /\ Len(filled) <= Len(answers) + 1
        /\ mainPc = "fill" => Len(filled) = Len(answers)
        /\ \A j \in 1..Len(answers) :
              IsQuit(answers[j]) => j = Len(answers) /\ mainPc = "exit0" /\ Len(filled) = j
        /\ mainPc = "exit0" => answers # <<>> /\ IsQuit(answers[Len(answers)])

\* C16: with n >= 1 day segments the days are in strictly ascending date
\* order and workbook k is filled for day k, from that day's row ranges; the
\* fill of day k+1 starts only after the fill of day k and an answer of the
\* operator other than "q"; after "q" at that prompt nothing more happens.
C16_OneFillPerDayInOrder == []C16_State /\ [][mainPc # "exit0"]_vars

\* a two-day run has ended whose markers stand in the sheet against the order
\* of their dates
C16_Witness ==
    /\ mainPc = "done"
    /\ colF[2] = <<"4", ".", "1", "0">>
    /\ colF[3] = <<"3", ".", "1", "2">>
    /\ Len(filled) = 2
    /\ Len(answers) = 1
    /\ filled[1].override_date = <<baseYear, 3, 12>>
    /\ filled[2].override_date = <<baseYear, 4, 10>>

\* the date a fill uses: the day segment's, else the one parsed from the
\* document's inspection date
DateUsed(k) ==
    IF dayGroups # <<>> THEN dayGroups[k].dt
    ELSE ParseCnDate(DictGet(dataFromWord, "tanshang_riqi"))

\* 2025-03-12 .. 2025-04-09, both days included
InInstrumentWindow(dt) ==
    /\ dt # NoDate
    /\ dt[1] = 2025
    /\ \/ dt[2] = 3 /\ dt[3] >= 12
       \/ dt[2] = 4 /\ dt[3] <= 9

\* C17: every fill writes the instrument "13-27" when the date it uses lies in
\* 2025-03-12 .. 2025-04-09, both days included, and "22-72" for every other
\* date and when there is no date.
C17_InstrumentByDateWindow ==
    \A k \in 1..Len(filled) :
        filled[k].basic["B3:D3"] =
            IF InInstrumentWindow(DateUsed(k)) THEN <<"1", "3", "-", "2", "7">>
            ELSE <<"2", "2", "-", "7", "2">>

\* a run has filled the last day of the window with "13-27" and the day after
\* it with "22-72"
C17_Witness ==
    /\ Len(filled) = 2
    /\ DateUsed(1) = <<2025, 4, 9>>
    /\ filled[1].basic["B3:D3"] = <<"1", "3", "-", "2", "7">>
    /\ DateUsed(2) = <<2025, 4, 10>>
    /\ filled[2].basic["B3:D3"] = <<"2", "2", "-", "7", "2">>

====
